---- MODULE Spec2Model ----
(***************************************************************************)
(* Test-case schema validation of mcp_server/testcase_schema.py: the       *)
(* pydantic models TestStep, TestCase and TestCaseBatch, and the           *)
(* TestCaseValidator methods validate_single_testcase,                     *)
(* validate_testcase_batch and validate_with_retry.                        *)
(*                                                                         *)
(* A payload is a JSON-like value: every value carries a tag t, a mapping  *)
(* is a function from its keys to values and a key that is missing is not  *)
(* in the function's domain.  Text is a sequence of one-character strings, *)
(* so that len() and str.strip() are computed on the characters.  The      *)
(* texts of the library's own messages are those of pydantic 1.x; the      *)
(* inputs are those that pydantic 1.x and 2.x treat alike.                 *)
(***************************************************************************)
EXTENDS Integers, Sequences, FiniteSets, TLC

VARIABLES
    op,               \* the method called: "single", "batch" or "retry"
    data,             \* its data argument
    validation_type,  \* validate_with_retry's validation_type argument
    max_retries,      \* self.max_retries of the validator
    pc,               \* position of the call
    attempt,          \* validate_with_retry: attempt
    last_result,      \* validate_with_retry: last_result
    last_attempt,     \* the iteration (from 1) that assigned last_result, 0 if none
    calls,            \* validator calls made by validate_with_retry
    result,           \* the ValidationResult returned (None before the return)
    exception,        \* the exception the call propagated ("none" if none)
    second,           \* result of validating result.validated_data again
    is_configured,    \* ado_client.is_configured
    log,              \* the validator calls, codec calls and requests made, in order
    payload,          \* the mapping the tool hands to the ADO client
    response,         \* what the tool returns (None before the return)
    item,             \* generate_testcases_from_story: position in the submitted list
    workflow,         \* generate_testcases_from_story: workflow_result
    connection,       \* ado_client: what configure stored (base_url, project, headers)
    test_case_id,     \* ADOClient.create_testcase: test_case_id
    is_initialized,   \* traceability_manager.is_initialized
    max_validation_retries, \* generate_testcases_from_story: its argument
    tasks             \* the calls of concurrent tasks, each with its own locals

validator_vars == <<validation_type, max_retries, attempt, last_result,
                    last_attempt, calls, result, exception, second>>

(* What a call of a tool does not change. *)
fixed_vars == <<is_initialized, max_validation_retries, tasks>>

tool_vars == <<is_configured, log, payload, response, item, workflow,
               connection, test_case_id, fixed_vars>>

vars == <<op, data, pc, validator_vars, tool_vars>>

----------------------------------------------------------------------------
(* Bounds of the input space *)

MaxSteps == 2
MaxBatch == 2
MaxRetries == 3

----------------------------------------------------------------------------
(* JSON-like values *)

None == [t |-> "none"]
Null == [t |-> "null"]
Absent == [t |-> "absent"]
Str(s) == [t |-> "str", v |-> s]
Num(n) == [t |-> "int", v |-> n]
List(l) == [t |-> "list", v |-> l]
Map(m) == [t |-> "map", v |-> m]

EmptyMap == [k \in {} |-> k]

Get(m, k) == IF k \in DOMAIN m THEN m[k] ELSE Absent

Rep(c, n) == [i \in 1..n |-> c]

----------------------------------------------------------------------------
(* str.strip(), int(str) and the join of an error location *)

Whitespace == {" "}

Digits == <<"0", "1", "2", "3", "4", "5", "6", "7", "8", "9">>

RECURSIVE FirstKept(_, _)
FirstKept(s, i) ==
    IF i > Len(s) \/ s[i] \notin Whitespace THEN i ELSE FirstKept(s, i + 1)

RECURSIVE LastKept(_, _)
LastKept(s, i) ==
    IF i < 1 \/ s[i] \notin Whitespace THEN i ELSE LastKept(s, i - 1)

strip(s) == SubSeq(s, FirstKept(s, 1), LastKept(s, Len(s)))

IsDigits(s) ==
    /\ Len(s) >= 1
    /\ \A i \in 1..Len(s) : \E d \in 1..10 : Digits[d] = s[i]

DigitValue(c) == (CHOOSE d \in 1..10 : Digits[d] = c) - 1

RECURSIVE ParseInt(_)
ParseInt(s) ==
    IF Len(s) = 0 THEN 0
    ELSE 10 * ParseInt(SubSeq(s, 1, Len(s) - 1)) + DigitValue(s[Len(s)])

RECURSIVE JoinLoc(_)
JoinLoc(loc) ==
    IF Len(loc) = 0 THEN ""
    ELSE IF Len(loc) = 1 THEN loc[1]
    ELSE loc[1] \o " -> " \o JoinLoc(Tail(loc))

RECURSIVE Concat(_)
Concat(seqs) == IF Len(seqs) = 0 THEN <<>> ELSE Head(seqs) \o Concat(Tail(seqs))

----------------------------------------------------------------------------
(* Outcome of validating one field: the errors (loc, msg) it adds to the   *)
(* ValidationError, and the field's value when there are none.             *)

Ok(v) == [errs |-> <<>>, val |-> v]

Fail(loc, msg) == [errs |-> <<[loc |-> loc, msg |-> msg]>>, val |-> None]

MsgMissing == "field required"
MsgStrType == "str type expected"
MsgMinLength == "ensure this value has at least 1 characters"
MsgMaxLength == "ensure this value has at most 255 characters"
MsgListType == "value is not a valid list"
MsgMinItems == "ensure this value has at least 1 items"
MsgDictType == "value is not a valid dict"
MsgIntType == "value is not a valid integer"
MsgGe == "ensure this value is greater than or equal to 1"
MsgLe == "ensure this value is less than or equal to 4"
MsgEmpty == "Field cannot be empty or whitespace only"
MsgNoSteps == "Test case must have at least one step"
MsgUnique == "Test case titles must be unique within a batch"

NoLimit == -1

(* Mutant of StrField: the minimum length is compared with <= . *)
StrField_min_off_by_one(loc, x, min_length, max_length) ==
    IF x.t = "absent" THEN Fail(loc, MsgMissing)
    ELSE IF x.t # "str" THEN Fail(loc, MsgStrType)
    ELSE IF Len(x.v) <= min_length THEN Fail(loc, MsgMinLength)
    ELSE IF max_length # NoLimit /\ Len(x.v) > max_length THEN Fail(loc, MsgMaxLength)
    ELSE Ok(x.v)

(* A required str field with Field(..., min_length, max_length): the type  *)
(* and the length constraints are checked on the value as given.           *)
StrField(loc, x, min_length, max_length) ==
    IF x.t = "absent" THEN Fail(loc, MsgMissing)
    ELSE IF x.t # "str" THEN Fail(loc, MsgStrType)
    ELSE IF Len(x.v) < min_length THEN Fail(loc, MsgMinLength)
    ELSE IF max_length # NoLimit /\ Len(x.v) > max_length THEN Fail(loc, MsgMaxLength)
    ELSE Ok(x.v)

(* An int: an int is taken as it is, a string of digits is converted.      *)
IntValue(loc, x) ==
    IF x.t = "int" THEN Ok(x.v)
    ELSE IF x.t = "str" /\ IsDigits(x.v) THEN Ok(ParseInt(x.v))
    ELSE Fail(loc, MsgIntType)

----------------------------------------------------------------------------
(* Helpers: the errors and the values of a sequence of validated parts *)

Errors(parts) == Concat([i \in 1..Len(parts) |-> parts[i].errs])

Values(parts) == [i \in 1..Len(parts) |-> parts[i].val]

Index(i) == ToString(i - 1)

----------------------------------------------------------------------------
(* class TestStep *)

(* Mutant of TestStep_validate_not_empty: the value is returned untrimmed. *)
TestStep_validate_not_empty_untrimmed(loc, v) ==
    IF Len(v) = 0 \/ strip(v) = <<>> THEN Fail(loc, MsgEmpty) ELSE Ok(v)

TestStep_validate_not_empty(loc, v) ==
    IF Len(v) = 0 \/ strip(v) = <<>> THEN Fail(loc, MsgEmpty) ELSE Ok(strip(v))

(* A validator runs on a field only when the field's own checks passed. *)
TestStep_text(f, loc) ==
    IF f.errs # <<>> THEN f ELSE TestStep_validate_not_empty(loc, f.val)

TestStep_action(loc, m) ==
    TestStep_text(StrField(loc \o <<"action">>, Get(m, "action"), 1, NoLimit),
                  loc \o <<"action">>)

TestStep_expected(loc, m) ==
    TestStep_text(StrField(loc \o <<"expected">>, Get(m, "expected"), 1, NoLimit),
                  loc \o <<"expected">>)

TestStep_model(parts) ==
    IF Errors(parts) # <<>> THEN [errs |-> Errors(parts), val |-> None]
    ELSE Ok([action |-> parts[1].val, expected |-> parts[2].val])

TestStep(loc, x) ==
    IF x.t # "map" THEN Fail(loc, MsgDictType)
    ELSE TestStep_model(<<TestStep_action(loc, x.v), TestStep_expected(loc, x.v)>>)

----------------------------------------------------------------------------
(* class TestCase *)

TestCase_validate_not_empty(loc, v) ==
    IF Len(v) = 0 \/ strip(v) = <<>> THEN Fail(loc, MsgEmpty) ELSE Ok(strip(v))

(* Mutant of TestCase_text: the validator also reports on a field whose    *)
(* own checks failed.                                                      *)
TestCase_text_always(f, loc) ==
    IF f.errs # <<>> THEN [errs |-> f.errs \o Fail(loc, MsgEmpty).errs, val |-> None]
    ELSE TestCase_validate_not_empty(loc, f.val)

TestCase_text(f, loc) ==
    IF f.errs # <<>> THEN f ELSE TestCase_validate_not_empty(loc, f.val)

TestCase_title(loc, m) ==
    TestCase_text(StrField(loc \o <<"title">>, Get(m, "title"), 1, 255),
                  loc \o <<"title">>)

TestCase_description(loc, m) ==
    TestCase_text(StrField(loc \o <<"description">>, Get(m, "description"), 1, NoLimit),
                  loc \o <<"description">>)

validate_steps_not_empty(loc, v) ==
    IF Len(v) = 0 THEN Fail(loc, MsgNoSteps) ELSE Ok(v)

(* The items of steps: the validator runs when every item is a TestStep. *)
TestCase_steps_items(items, loc) ==
    IF Errors(items) # <<>> THEN [errs |-> Errors(items), val |-> None]
    ELSE validate_steps_not_empty(loc, Values(items))

TestCase_steps_list(x, loc) ==
    IF x.t = "absent" THEN Fail(loc, MsgMissing)
    ELSE IF x.t # "list" THEN Fail(loc, MsgListType)
    ELSE IF Len(x.v) < 1 THEN Fail(loc, MsgMinItems)
    ELSE TestCase_steps_items(
             [i \in 1..Len(x.v) |-> TestStep(loc \o <<Index(i)>>, x.v[i])], loc)

TestCase_steps(loc, m) == TestCase_steps_list(Get(m, "steps"), loc \o <<"steps">>)

TestCase_priority_range(n, loc) ==
    IF n.errs # <<>> THEN n
    ELSE IF n.val < 1 THEN Fail(loc, MsgGe)
    ELSE IF n.val > 4 THEN Fail(loc, MsgLe)
    ELSE Ok(Num(n.val))

TestCase_priority_value(x, loc) ==
    IF x.t = "absent" THEN Ok(Num(2))
    ELSE IF x.t = "null" THEN Ok(Null)
    ELSE TestCase_priority_range(IntValue(loc, x), loc)

TestCase_priority(loc, m) ==
    TestCase_priority_value(Get(m, "priority"), loc \o <<"priority">>)

TestCase_model(parts) ==
    IF Errors(parts) # <<>> THEN [errs |-> Errors(parts), val |-> None]
    ELSE Ok([t |-> "TestCase", title |-> parts[1].val,
             description |-> parts[2].val, steps |-> parts[3].val,
             priority |-> parts[4].val])

(* Construction of a TestCase from the mapping m: every field is validated, *)
(* in the order of declaration, and the errors of all fields are collected. *)
TestCase(loc, m) ==
    TestCase_model(<<TestCase_title(loc, m), TestCase_description(loc, m),
                     TestCase_steps(loc, m), TestCase_priority(loc, m)>>)

----------------------------------------------------------------------------
(* class ValidationResult and TestCaseValidator.validate_single_testcase *)

ValidationResult(is_valid, errors, validated_data) ==
    [is_valid |-> is_valid, errors |-> errors, warnings |-> <<>>,
     validated_data |-> validated_data]

FormatError_unquoted(e) == "Field " \o JoinLoc(e.loc) \o ": " \o e.msg

FormatError(e) == "Field '" \o JoinLoc(e.loc) \o "': " \o e.msg

error_messages(errs) == [i \in 1..Len(errs) |-> FormatError(errs[i])]

MsgNotMapping == "argument after double-star must be a mapping"

Unexpected(msg) == "Unexpected validation error: " \o msg

Returned(r) == [exception |-> "none", value |-> r]

Raised(e) == [exception |-> e, value |-> None]

(* try: the model c was constructed; except ValidationError: its errors. *)
single_result(c) ==
    IF c.errs = <<>>
    THEN Returned(ValidationResult(TRUE, <<>>, c.val))
    ELSE Returned(ValidationResult(FALSE, error_messages(c.errs), None))

(* Mutant of validate_single_testcase: no except Exception clause. *)
validate_single_testcase_uncaught(d) ==
    IF d.t # "map" THEN Raised("TypeError") ELSE single_result(TestCase(<<>>, d.v))

(* A data that is no mapping raises TypeError: except Exception. *)
validate_single_testcase(d) ==
    IF d.t # "map"
    THEN Returned(ValidationResult(FALSE, <<Unexpected(MsgNotMapping)>>, None))
    ELSE single_result(TestCase(<<>>, d.v))

----------------------------------------------------------------------------
(* class TestCaseBatch and TestCaseValidator.validate_testcase_batch *)

validate_unique_titles(loc, v) ==
    IF Len(v) # Cardinality({v[i].title : i \in 1..Len(v)})
    THEN Fail(loc, MsgUnique)
    ELSE Ok(v)

TestCaseBatch_test_cases_items(items, loc) ==
    IF Errors(items) # <<>> THEN [errs |-> Errors(items), val |-> None]
    ELSE validate_unique_titles(loc, Values(items))

TestCaseBatch_item(loc, x) ==
    IF x.t # "map" THEN Fail(loc, MsgDictType) ELSE TestCase(loc, x.v)

TestCaseBatch_test_cases_list(x, loc) ==
    IF x.t = "absent" THEN Fail(loc, MsgMissing)
    ELSE IF x.t # "list" THEN Fail(loc, MsgListType)
    ELSE IF Len(x.v) < 1 THEN Fail(loc, MsgMinItems)
    ELSE TestCaseBatch_test_cases_items(
             [i \in 1..Len(x.v) |-> TestCaseBatch_item(loc \o <<Index(i)>>, x.v[i])],
             loc)

TestCaseBatch_test_cases(m) ==
    TestCaseBatch_test_cases_list(Get(m, "test_cases"), <<"test_cases">>)

TestCaseBatch_user_story_id_value(x, loc) ==
    IF x.t = "absent" THEN Fail(loc, MsgMissing) ELSE IntValue(loc, x)

TestCaseBatch_user_story_id(m) ==
    TestCaseBatch_user_story_id_value(Get(m, "user_story_id"), <<"user_story_id">>)

TestCaseBatch_metadata_value(x, loc) ==
    IF x.t = "absent" THEN Ok(Map(EmptyMap))
    ELSE IF x.t \in {"null", "map"} THEN Ok(x)
    ELSE Fail(loc, MsgDictType)

TestCaseBatch_metadata(m) ==
    TestCaseBatch_metadata_value(Get(m, "metadata"), <<"metadata">>)

TestCaseBatch_model(parts) ==
    IF Errors(parts) # <<>> THEN [errs |-> Errors(parts), val |-> None]
    ELSE Ok([t |-> "TestCaseBatch", test_cases |-> parts[1].val,
             user_story_id |-> parts[2].val, metadata |-> parts[3].val])

TestCaseBatch(m) ==
    TestCaseBatch_model(<<TestCaseBatch_test_cases(m),
                          TestCaseBatch_user_story_id(m),
                          TestCaseBatch_metadata(m)>>)

batch_result(c) ==
    IF c.errs = <<>>
    THEN Returned(ValidationResult(TRUE, <<>>, c.val))
    ELSE Returned(ValidationResult(FALSE, error_messages(c.errs), None))

validate_testcase_batch(d) ==
    IF d.t # "map"
    THEN Returned(ValidationResult(FALSE, <<Unexpected(MsgNotMapping)>>, None))
    ELSE batch_result(TestCaseBatch(d.v))

(* The mapping of a validated TestCase's fields, as given to the validator *)
(* a second time.                                                          *)
FieldsOf(tc) ==
    Map([title |-> Str(tc.title),
         description |-> Str(tc.description),
         steps |-> List([i \in 1..Len(tc.steps) |->
                            Map([action |-> Str(tc.steps[i].action),
                                 expected |-> Str(tc.steps[i].expected)])]),
         priority |-> tc.priority])

----------------------------------------------------------------------------
(* Inputs *)

Opt(k, vals) == {EmptyMap} \cup {k :> x : x \in vals}

TitleInputs ==
    { List(<<>>), Str(<<>>), Str(<<" ">>), Str(<<" ", "a", " ">>),
      Str(Rep("a", 255)), Str(<<" ">> \o Rep("a", 255)), Str(Rep("a", 256)),
      Str(<<" ">> \o Rep("a", 256) \o <<" ">>) }

DescriptionInputs == { Str(<<" ">>), Str(<<" ", "d", " ", "d", " ">>) }

PriorityInputs ==
    { Null, Num(0), Num(1), Num(4), Num(5), Str(<<"3">>), Str(<<"h", "i">>) }

StepInputs ==
    { Str(<<"s">>),
      Map([action |-> Str(<<" ", "x", " ">>), expected |-> Str(<<" ", "y", " ">>)]),
      Map([action |-> Str(<<"y">>), expected |-> Str(<<" ", "x">>)]),
      Map([expected |-> Str(<<"y">>)]),
      Map([action |-> Str(<<>>), expected |-> Str(<<"y">>)]),
      Map([action |-> Str(<<"x">>), expected |-> Str(<<" ">>)]),
      Map([action |-> Str(<<" ">>)]) }

RECURSIVE SeqsUpTo(_, _)
SeqsUpTo(S, n) ==
    IF n = 0 THEN {<<>>}
    ELSE LET shorter == SeqsUpTo(S, n - 1)
         IN  shorter \cup {Append(q, x) : q \in {r \in shorter : Len(r) = n - 1}, x \in S}

StepsInputs == {Str(<<"s">>)} \cup {List(q) : q \in SeqsUpTo(StepInputs, MaxSteps)}

SingleInputs ==
    { Map(t @@ d @@ s @@ p) :
        t \in Opt("title", TitleInputs),
        d \in Opt("description", DescriptionInputs),
        s \in Opt("steps", StepsInputs),
        p \in Opt("priority", PriorityInputs) }
    \cup {List(<<>>)}

GoodStep == Map([action |-> Str(<<"x">>), expected |-> Str(<<"y">>)])

BatchItemInputs ==
    { Map([title |-> t, description |-> Str(<<"d">>), steps |-> List(q)]) :
        t \in { Str(<<" ", "a", " ">>), Str(<<"a">>), Str(<<"b">>), Str(<<>>) },
        q \in { <<>>, <<GoodStep>> } }
    \cup {Str(<<"s">>)}

TestCasesInputs ==
    {Str(<<"s">>)} \cup {List(q) : q \in SeqsUpTo(BatchItemInputs, MaxBatch)}

UserStoryIdInputs == {Num(7), Str(<<"u">>)}

BatchInputs ==
    { Map(c @@ u) :
        c \in Opt("test_cases", TestCasesInputs),
        u \in Opt("user_story_id", UserStoryIdInputs) }
    \cup {List(<<>>)}

Short(m, k) == k \in DOMAIN m /\ m[k].t = "list" /\ Len(m[k].v) <= 1

RetryInputs ==
    { d \in SingleInputs :
        d.t = "map" => /\ Short(d.v, "steps")
                       /\ DOMAIN d.v = {"title", "description", "steps"} }
    \cup { d \in BatchInputs :
             d.t = "map" => Short(d.v, "test_cases") /\ "user_story_id" \in DOMAIN d.v }

ValidationTypes == {"single", "batch", "bulk"}

----------------------------------------------------------------------------
(* The calls *)

Init ==
    /\ \/ op = "single" /\ data \in SingleInputs /\ validation_type = "single"
          /\ max_retries = 3 /\ pc = "start"
       \/ op = "batch" /\ data \in BatchInputs /\ validation_type = "batch"
          /\ max_retries = 3 /\ pc = "start"
       \/ op = "retry" /\ data \in RetryInputs /\ validation_type \in ValidationTypes
          /\ max_retries \in 0..MaxRetries /\ pc = "loop"
    /\ attempt = 0
    /\ last_result = None
    /\ last_attempt = 0
    /\ calls = 0
    /\ result = None
    /\ exception = "none"
    /\ second = None
    /\ is_configured = FALSE
    /\ log = <<>>
    /\ payload = None
    /\ response = None
    /\ item = 0
    /\ workflow = None
    /\ connection = None
    /\ test_case_id = None
    /\ is_initialized = FALSE
    /\ max_validation_retries = 0
    /\ tasks = <<>>

(* The method returns r.value, or propagates r.exception. *)
Return(r) ==
    /\ result' = r.value
    /\ exception' = r.exception
    /\ pc' = "done"

ValidateSingle ==
    /\ op = "single"
    /\ pc = "start"
    /\ Return(validate_single_testcase(data))
    /\ UNCHANGED <<op, data, validation_type, max_retries, attempt,
                   last_result, last_attempt, calls, second>>
    /\ UNCHANGED tool_vars

ValidateBatch ==
    /\ op = "batch"
    /\ pc = "start"
    /\ Return(validate_testcase_batch(data))
    /\ UNCHANGED <<op, data, validation_type, max_retries, attempt,
                   last_result, last_attempt, calls, second>>
    /\ UNCHANGED tool_vars

(* The caller validates the fields of the validated test case again. *)
Revalidate ==
    /\ op = "single"
    /\ pc = "done"
    /\ exception = "none"
    /\ result.is_valid
    /\ second' = validate_single_testcase(FieldsOf(result.validated_data)).value
    /\ pc' = "revalidated"
    /\ UNCHANGED <<op, data, validation_type, max_retries, attempt,
                   last_result, last_attempt, calls, result, exception>>
    /\ UNCHANGED tool_vars

(* The rest of an iteration of validate_with_retry, r being what the      *)
(* validator call did: return on a valid result, or keep it and loop.     *)
(* Mutant of AfterAttempt: last_result keeps the first failing result. *)
AfterAttempt_keep_first(r) ==
    IF r.exception # "none" \/ r.value.is_valid
    THEN Return(r) /\ UNCHANGED <<last_result, last_attempt>>
    ELSE /\ pc' = "loop"
         /\ IF last_result = None
            THEN last_result' = r.value /\ last_attempt' = attempt'
            ELSE UNCHANGED <<last_result, last_attempt>>
         /\ UNCHANGED <<result, exception>>

(* Mutant of AfterAttempt: a valid result does not end the loop. *)
AfterAttempt_no_return(r) ==
    /\ pc' = "loop"
    /\ last_result' = r.value
    /\ last_attempt' = attempt'
    /\ UNCHANGED <<result, exception>>

AfterAttempt(r) ==
    IF r.exception # "none" \/ r.value.is_valid
    THEN Return(r) /\ UNCHANGED <<last_result, last_attempt>>
    ELSE /\ pc' = "loop"
         /\ last_result' = r.value
         /\ last_attempt' = attempt'
         /\ UNCHANGED <<result, exception>>

(* Mutant of RetryAttempt: the loop's condition is attempt <= max_retries. *)
RetryAttempt_one_more ==
    /\ op = "retry"
    /\ pc = "loop"
    /\ attempt <= max_retries
    /\ attempt' = attempt + 1
    /\ IF validation_type = "single"
       THEN calls' = calls + 1 /\ AfterAttempt(validate_single_testcase(data))
       ELSE IF validation_type = "batch"
       THEN calls' = calls + 1 /\ AfterAttempt(validate_testcase_batch(data))
       ELSE /\ Return(Returned(ValidationResult(FALSE,
                        <<"Unknown validation type: " \o validation_type>>, None)))
            /\ UNCHANGED <<last_result, last_attempt, calls>>
    /\ UNCHANGED <<op, data, validation_type, max_retries, second>>
    /\ UNCHANGED tool_vars

(* One iteration of validate_with_retry's loop. *)
RetryAttempt ==
    /\ op = "retry"
    /\ pc = "loop"
    /\ attempt < max_retries
    /\ attempt' = attempt + 1
    /\ IF validation_type = "single"
       THEN calls' = calls + 1 /\ AfterAttempt(validate_single_testcase(data))
       ELSE IF validation_type = "batch"
       THEN calls' = calls + 1 /\ AfterAttempt(validate_testcase_batch(data))
       ELSE /\ Return(Returned(ValidationResult(FALSE,
                        <<"Unknown validation type: " \o validation_type>>, None)))
            /\ UNCHANGED <<last_result, last_attempt, calls>>
    /\ UNCHANGED <<op, data, validation_type, max_retries, second>>
    /\ UNCHANGED tool_vars

(* Mutant of RetryExhausted: last_result is returned without the fallback. *)
RetryExhausted_last_only ==
    /\ op = "retry"
    /\ pc = "loop"
    /\ ~(attempt < max_retries)
    /\ result' = last_result
    /\ pc' = "done"
    /\ UNCHANGED <<op, data, validation_type, max_retries, attempt,
                   last_result, last_attempt, calls, exception, second>>
    /\ UNCHANGED tool_vars

(* Mutant of RetryExhausted: with no attempt made, last_result.errors is   *)
(* read and the call raises.                                              *)
RetryExhausted_raises ==
    /\ op = "retry"
    /\ pc = "loop"
    /\ ~(attempt < max_retries)
    /\ IF last_result = None
       THEN exception' = "AttributeError" /\ UNCHANGED result
       ELSE result' = last_result /\ UNCHANGED exception
    /\ pc' = "done"
    /\ UNCHANGED <<op, data, validation_type, max_retries, attempt,
                   last_result, last_attempt, calls, second>>
    /\ UNCHANGED tool_vars

(* The loop's condition is false: the last result, or the fallback. *)
RetryExhausted ==
    /\ op = "retry"
    /\ pc = "loop"
    /\ ~(attempt < max_retries)
    /\ result' = IF last_result # None THEN last_result
                 ELSE ValidationResult(FALSE,
                          <<"Validation failed after maximum retries">>, None)
    /\ pc' = "done"
    /\ UNCHANGED <<op, data, validation_type, max_retries, attempt,
                   last_result, last_attempt, calls, exception, second>>
    /\ UNCHANGED tool_vars

Next ==
    \/ ValidateSingle
    \/ ValidateBatch
    \/ Revalidate
    \/ RetryAttempt
    \/ RetryExhausted

Spec == Init /\ [][Next]_vars

----------------------------------------------------------------------------
(* The constraints of a test case as the specification words them, on the  *)
(* payload itself.                                                         *)

Range(q) == {q[i] : i \in 1..Len(q)}

Has(m, k, tag) == k \in DOMAIN m /\ m[k].t = tag

TextOk(m, k) == Has(m, k, "str") /\ strip(m[k].v) # <<>>

TitleOk(m) == TextOk(m, "title") /\ Len(strip(m["title"].v)) <= 255

DescriptionOk(m) == TextOk(m, "description")

StepOk(x) == x.t = "map" /\ TextOk(x.v, "action") /\ TextOk(x.v, "expected")

StepsOk(m) ==
    /\ Has(m, "steps", "list")
    /\ Len(m["steps"].v) >= 1
    /\ \A i \in 1..Len(m["steps"].v) : StepOk(m["steps"].v[i])

PriorityOk(m) ==
    "priority" \in DOMAIN m => m["priority"].t = "int" /\ m["priority"].v \in 1..4

WellFormed(m) == TitleOk(m) /\ DescriptionOk(m) /\ StepsOk(m) /\ PriorityOk(m)

ErrorAt(loc, msg) == FormatError([loc |-> loc, msg |-> msg])

Messages ==
    { MsgMissing, MsgStrType, MsgMinLength, MsgMaxLength, MsgListType, MsgMinItems,
      MsgDictType, MsgIntType, MsgGe, MsgLe, MsgEmpty, MsgNoSteps, MsgUnique }

(* The error strings that name the field at loc *)
ErrorsAt(loc) == {ErrorAt(loc, msg) : msg \in Messages}

SingleDone == op = "single" /\ pc \in {"done", "revalidated"} /\ exception = "none"

BatchDone == op = "batch" /\ pc = "done" /\ exception = "none"

----------------------------------------------------------------------------
(* C1: validate_single accepts every well-formed test case, the title's    *)
(* length being counted after trimming.                                    *)
C1_AcceptsWellFormed ==
    (SingleDone /\ data.t = "map" /\ WellFormed(data.v)) => result.is_valid

----------------------------------------------------------------------------
Count(b) == IF b THEN 1 ELSE 0

StepViolations(x) ==
    IF x.t # "map" THEN 1
    ELSE Count(~TextOk(x.v, "action")) + Count(~TextOk(x.v, "expected"))

RECURSIVE SumStepViolations(_)
SumStepViolations(q) ==
    IF Len(q) = 0 THEN 0 ELSE StepViolations(Head(q)) + SumStepViolations(Tail(q))

StepsViolations(m) ==
    IF ~Has(m, "steps", "list") \/ Len(m["steps"].v) = 0 THEN 1
    ELSE SumStepViolations(m["steps"].v)

Violations(m) ==
    Count(~TitleOk(m)) + Count(~DescriptionOk(m)) + StepsViolations(m)
    + Count(~PriorityOk(m))

(* C2: an input that violates k constraints (title, description, steps,    *)
(* each step's action and expected, priority) yields at least k errors.    *)
C2_OneErrorPerViolation ==
    (SingleDone /\ data.t = "map") => Len(result.errors) >= Violations(data.v)

----------------------------------------------------------------------------
TitleErrors == {i \in 1..Len(result.errors) : result.errors[i] \in ErrorsAt(<<"title">>)}

TitleViolated(m) ==
    \/ "title" \notin DOMAIN m
    \/ /\ m["title"].t = "str"
       /\ \/ strip(m["title"].v) = <<>>
          \/ Len(strip(m["title"].v)) > 255

(* C3: a title that is missing, empty after trimming or longer than 255    *)
(* characters after trimming makes the result invalid with exactly one     *)
(* error that names the title, whatever else is violated.                  *)
C3_ExactlyOneTitleError ==
    (SingleDone /\ data.t = "map" /\ TitleViolated(data.v))
        => ~result.is_valid /\ Cardinality(TitleErrors) = 1

C3_Witness ==
    /\ SingleDone
    /\ data.t = "map"
    /\ Has(data.v, "title", "str")
    /\ Len(strip(data.v["title"].v)) > 255
    /\ "steps" \notin DOMAIN data.v
    /\ Len(result.errors) >= 3
    /\ Cardinality(TitleErrors) = 1

----------------------------------------------------------------------------
ItemTitle(x) == IF x.t = "map" /\ TextOk(x.v, "title")
                THEN <<strip(x.v["title"].v)>> ELSE <<>>

Collision(q) ==
    \E i, j \in 1..Len(q) : i < j /\ ItemTitle(q[i]) # <<>> /\ ItemTitle(q[i]) = ItemTitle(q[j])

UniqueError == ErrorAt(<<"test_cases">>, MsgUnique)

(* C4: a batch in which two items have the same title after trimming is    *)
(* invalid and its errors name the uniqueness of titles, whether or not    *)
(* every item validates.                                                   *)
C4_CollisionAlwaysReported ==
    (BatchDone /\ data.t = "map" /\ Has(data.v, "test_cases", "list")
        /\ Collision(data.v["test_cases"].v))
        => ~result.is_valid /\ UniqueError \in Range(result.errors)

----------------------------------------------------------------------------
ItemErrors(x) == IF x.t = "map" THEN TestCase(<<>>, x.v).errs ELSE <<>>

Tagged(i, e) == ErrorAt(<<"test_cases", Index(i)>> \o e.loc, e.msg)

AllItemsPass(q) == \A i \in 1..Len(q) : validate_single_testcase(q[i]).value.is_valid

C5_Batch(q) ==
    /\ result.is_valid => AllItemsPass(q) /\ ~Collision(q)
    /\ ~(AllItemsPass(q) /\ ~Collision(q)) =>
          /\ ~result.is_valid
          /\ \A i \in 1..Len(q) : \A e \in Range(ItemErrors(q[i])) :
                 Tagged(i, e) \in Range(result.errors)
          /\ Collision(q) => UniqueError \in Range(result.errors)

(* C5: a batch is valid only if every item passes validate_single and the  *)
(* trimmed titles are pairwise distinct; otherwise the errors hold every   *)
(* violation of every item, tagged with the item's position, and the       *)
(* uniqueness violation when titles collide.                               *)
C5_BatchIsUnionOfViolations ==
    (BatchDone /\ data.t = "map" /\ Has(data.v, "test_cases", "list"))
        => C5_Batch(data.v["test_cases"].v)

----------------------------------------------------------------------------
PriorityErrors == Range(result.errors) \cap ErrorsAt(<<"priority">>)

C6_Valid(m, p) ==
    /\ p.t = "int" /\ p.v \in 1..4
    /\ "priority" \notin DOMAIN m => p.v = 2
    /\ ("priority" \in DOMAIN m /\ PriorityOk(m)) => p.v = m["priority"].v

(* C6: in a valid result the priority is an integer in 1..4, 2 when the    *)
(* input has none, the supplied value when that is an integer in 1..4; a   *)
(* priority that is present and is not an integer in 1..4 is rejected with *)
(* an error that names priority.                                           *)
C6_PriorityInRange ==
    (SingleDone /\ data.t = "map") =>
        /\ result.is_valid => C6_Valid(data.v, result.validated_data.priority)
        /\ ~PriorityOk(data.v) => ~result.is_valid /\ PriorityErrors # {}

----------------------------------------------------------------------------
TrimOf(m, k, v) == Has(m, k, "str") /\ v = strip(m[k].v) /\ v # <<>>

C7_Steps(q, steps) ==
    /\ Len(steps) = Len(q)
    /\ \A i \in 1..Len(q) :
           /\ q[i].t = "map"
           /\ TrimOf(q[i].v, "action", steps[i].action)
           /\ TrimOf(q[i].v, "expected", steps[i].expected)

C7_Normalized(m, tc) ==
    /\ TrimOf(m, "title", tc.title)
    /\ TrimOf(m, "description", tc.description)
    /\ Has(m, "steps", "list")
    /\ C7_Steps(m["steps"].v, tc.steps)

HasEmptyStep(m) ==
    /\ Has(m, "steps", "list")
    /\ \E i \in 1..Len(m["steps"].v) :
           LET x == m["steps"].v[i]
           IN  /\ x.t = "map"
               /\ \E k \in {"action", "expected"} :
                      Has(x.v, k, "str") /\ strip(x.v[k].v) = <<>>

(* C7: in a valid result the title, the description and every step's       *)
(* action and expected are the input's texts without their leading and     *)
(* trailing whitespace, and are not empty; the steps are the input's, as   *)
(* many and in the same order; a step whose action or expected is empty    *)
(* after trimming makes the test case invalid.                             *)
C7_TrimmedInOrder ==
    (SingleDone /\ data.t = "map") =>
        /\ result.is_valid => C7_Normalized(data.v, result.validated_data)
        /\ HasEmptyStep(data.v) => ~result.is_valid

C7_Witness ==
    /\ SingleDone
    /\ result.is_valid
    /\ Len(result.validated_data.steps) = 2
    /\ result.validated_data.steps[1] # result.validated_data.steps[2]
    /\ data.v["title"].v # result.validated_data.title
    /\ data.v["steps"].v[1].v["action"].v # result.validated_data.steps[1].action

----------------------------------------------------------------------------
(* C8: validating the fields of an accepted test case's validated_data     *)
(* again is accepted and yields an equal validated_data.                   *)
C8_Idempotent ==
    pc = "revalidated" =>
        second.is_valid /\ second.validated_data = result.validated_data

C8_Witness ==
    /\ pc = "revalidated"
    /\ "priority" \notin DOMAIN data.v
    /\ data.v["title"].v # result.validated_data.title
    /\ second.validated_data.priority = Num(2)

----------------------------------------------------------------------------
TextShape(m, k) == Has(m, k, "str")

StepShape(x) == x.t = "map" /\ TextShape(x.v, "action") /\ TextShape(x.v, "expected")

SingleShape(d) ==
    /\ d.t = "map"
    /\ TextShape(d.v, "title")
    /\ TextShape(d.v, "description")
    /\ Has(d.v, "steps", "list")
    /\ \A i \in 1..Len(d.v["steps"].v) : StepShape(d.v["steps"].v[i])
    /\ "priority" \in DOMAIN d.v =>
           \/ d.v["priority"].t \in {"int", "null"}
           \/ d.v["priority"].t = "str" /\ IsDigits(d.v["priority"].v)

BatchShape(d) ==
    /\ d.t = "map"
    /\ Has(d.v, "test_cases", "list")
    /\ \A i \in 1..Len(d.v["test_cases"].v) : SingleShape(d.v["test_cases"].v[i])
    /\ \/ Has(d.v, "user_story_id", "int")
       \/ Has(d.v, "user_story_id", "str") /\ IsDigits(d.v["user_story_id"].v)

C9_Reported ==
    /\ result # None
    /\ ~result.is_valid
    /\ Len(result.errors) >= 1

(* C9: validate_single and validate_batch propagate no exception: a        *)
(* payload with a missing field, a field of the wrong type, steps that is  *)
(* no list, or a payload that is no mapping gets an invalid result with a  *)
(* non-empty list of errors.                                               *)
C9_NeverRaises ==
    (op \in {"single", "batch"} /\ pc # "start") =>
        /\ exception = "none"
        /\ (op = "single" /\ ~SingleShape(data)) => C9_Reported
        /\ (op = "batch" /\ ~BatchShape(data)) => C9_Reported

C9_Witness ==
    /\ op = "single"
    /\ pc = "done"
    /\ data.t # "map"
    /\ exception = "none"
    /\ result.errors = <<Unexpected(MsgNotMapping)>>

----------------------------------------------------------------------------
C10_WellFormedResult(r) ==
    /\ r # None
    /\ r.validated_data # None => r.is_valid
    /\ r.is_valid => r.errors = <<>>
    /\ ~r.is_valid => Len(r.errors) >= 1 /\ r.validated_data = None

(* C10: a result of validate_single, validate_batch or validate_with_retry *)
(* carries validated_data only when it is valid, no error when it is       *)
(* valid, and at least one error and no validated_data when it is invalid. *)
C10_ResultInvariant ==
    (pc \in {"done", "revalidated"} /\ exception = "none")
        => C10_WellFormedResult(result)

C10_Witness ==
    /\ op = "retry"
    /\ pc = "done"
    /\ calls = 0
    /\ validation_type = "batch"
    /\ ~result.is_valid
    /\ Len(result.errors) = 1

----------------------------------------------------------------------------
RECURSIVE JoinWith(_, _)
JoinWith(path, sep) ==
    IF Len(path) = 1 THEN path[1] ELSE path[1] \o sep \o JoinWith(Tail(path), sep)

Indices == {Index(i) : i \in 1..(MaxSteps + MaxBatch)}

StepPaths ==
    {<<"steps">>} \cup {<<"steps", i>> : i \in Indices}
    \cup {<<"steps", i, f>> : i \in Indices, f \in {"action", "expected"}}

TestCasePaths == {<<"title">>, <<"description">>, <<"priority">>} \cup StepPaths

BatchPaths ==
    {<<"test_cases">>, <<"user_story_id">>, <<"metadata">>}
    \cup {<<"test_cases", i>> : i \in Indices}
    \cup {<<"test_cases", i>> \o p : i \in Indices, p \in TestCasePaths}

FieldForms(sep) ==
    { "Field '" \o JoinWith(p, sep) \o "': " \o msg :
          p \in TestCasePaths \cup BatchPaths, msg \in Messages }

DottedForms == FieldForms(".")

ArrowForms == FieldForms(" -> ")

C11_Reported == (SingleDone \/ BatchDone) /\ pc = "done"

----------------------------------------------------------------------------
(* What one call of the validator of the given kind returns for data. *)
OneAttempt ==
    IF validation_type = "single" THEN validate_single_testcase(data).value
    ELSE validate_testcase_batch(data).value

RetryDone == op = "retry" /\ pc = "done" /\ validation_type \in {"single", "batch"}

(* C12: with a retry bound of 3 and a payload that is invalid on every     *)
(* attempt, validate_with_retry makes exactly 3 validator calls and        *)
(* returns the result of the third one, as that call produced it.          *)
C12_LastOfThree ==
    (RetryDone /\ max_retries = 3 /\ ~result.is_valid)
        => /\ calls = 3
           /\ attempt = 3
           /\ last_attempt = 3
           /\ result = last_result
           /\ result = OneAttempt

C12_Witness ==
    /\ RetryDone
    /\ max_retries = 3
    /\ validation_type = "single"
    /\ ~result.is_valid
    /\ Len(result.errors) = 2
    /\ last_attempt = 3

----------------------------------------------------------------------------
C13_Valid ==
    /\ op = "retry"
    /\ validation_type \in {"single", "batch"}
    /\ max_retries >= 1
    /\ OneAttempt.is_valid

(* C13: for a payload that is valid and any retry bound of at least 1,     *)
(* validate_with_retry makes exactly one validator call, for the single    *)
(* kind and for the batch kind, and returns that call's result.            *)
C13_OneAttemptWhenValid ==
    C13_Valid
        => /\ calls <= 1
           /\ attempt <= 1
           /\ pc = "loop" => attempt = 0
           /\ pc = "done" => /\ calls = 1
                             /\ attempt = 1
                             /\ result = OneAttempt
                             /\ last_result = None

C13_Witness ==
    /\ C13_Valid
    /\ pc = "done"
    /\ validation_type = "batch"
    /\ max_retries = MaxRetries
    /\ result.is_valid
    /\ calls = 1

----------------------------------------------------------------------------
(* C14: validate_with_retry called with a kind other than "single" or      *)
(* "batch" returns is_valid = false with exactly one error, which names    *)
(* the kind, without calling a validator and without a second iteration,   *)
(* for every payload and every retry bound.                                *)
C14_UnknownKindReported ==
    (op = "retry" /\ pc = "done" /\ validation_type \notin {"single", "batch"})
        => /\ ~result.is_valid
           /\ result.errors = <<"Unknown validation type: " \o validation_type>>
           /\ result.validated_data = None
           /\ calls = 0
           /\ attempt <= 1

----------------------------------------------------------------------------
C15_Bounded ==
    op = "retry" => attempt <= max_retries /\ calls <= attempt

(* The distance of a call of validate_with_retry from its return. *)
C15_Remaining == IF pc = "done" THEN 0 ELSE max_retries - attempt + 1

C15_AttemptOrReturn ==
    op = "retry"
        => /\ \/ attempt' = attempt + 1 /\ calls' \in {calls, calls + 1}
              \/ attempt' = attempt /\ calls' = calls /\ pc' = "done"
           /\ C15_Remaining' < C15_Remaining

----------------------------------------------------------------------------
(* ADOClient._format_test_steps: the test steps as the XML of the work     *)
(* item's Steps field. A string is the sequence of its characters.         *)

MaxCodecSteps == 2

(* <steps id="0" last=" *)
XmlStepsHead ==
    <<"<", "s", "t", "e", "p", "s", " ", "i", "d", "=", "\"", "0", "\"",
      " ", "l", "a", "s", "t", "=", "\"">>

(* "> *)
XmlAttrEnd ==
    <<"\"", ">">>

(* <step id=" *)
XmlStepHead ==
    <<"<", "s", "t", "e", "p", " ", "i", "d", "=", "\"">>

(* " type=" *)
XmlStepType ==
    <<"\"", " ", "t", "y", "p", "e", "=", "\"">>

(* <parameterizedString isformatted="true"> *)
XmlParamOpen ==
    <<"<", "p", "a", "r", "a", "m", "e", "t", "e", "r", "i", "z", "e", "d",
      "S", "t", "r", "i", "n", "g", " ", "i", "s", "f", "o", "r", "m", "a",
      "t", "t", "e", "d", "=", "\"", "t", "r", "u", "e", "\"", ">">>

(* </parameterizedString> *)
XmlParamClose ==
    <<"<", "/", "p", "a", "r", "a", "m", "e", "t", "e", "r", "i", "z", "e",
      "d", "S", "t", "r", "i", "n", "g", ">">>

(* <description/></step> *)
XmlStepTail ==
    <<"<", "d", "e", "s", "c", "r", "i", "p", "t", "i", "o", "n", "/", ">",
      "<", "/", "s", "t", "e", "p", ">">>

(* </steps> *)
XmlStepsTail ==
    <<"<", "/", "s", "t", "e", "p", "s", ">">>

(* ValidateStep *)
ValidateStep ==
    <<"V", "a", "l", "i", "d", "a", "t", "e", "S", "t", "e", "p">>

(* ActionStep *)
ActionStep ==
    <<"A", "c", "t", "i", "o", "n", "S", "t", "e", "p">>

(* &amp; *)
EntityAmp ==
    <<"&", "a", "m", "p", ";">>

(* &gt; *)
EntityGt ==
    <<"&", "g", "t", ";">>

(* &lt; *)
EntityLt ==
    <<"&", "l", "t", ";">>

(* str(n) *)
RECURSIVE Dec(_)
Dec(n) == IF n < 10 THEN <<Digits[n + 1]>> ELSE Dec(n \div 10) \o <<Digits[(n % 10) + 1]>>

(* s.replace(old, new) for a one-character old *)
RECURSIVE replace(_, _, _)
replace(s, old, new) ==
    IF Len(s) = 0 THEN <<>>
    ELSE (IF Head(s) = old THEN new ELSE <<Head(s)>>) \o replace(Tail(s), old, new)

(* Mutant of escape: "<" is left as it is. *)
escape_no_lt(s) == replace(replace(s, "&", EntityAmp), ">", EntityGt)

(* Mutant of escape: "&" is replaced last, after the entities of ">" and   *)
(* "<" were put in.                                                        *)
escape_amp_last(s) == replace(replace(replace(s, ">", EntityGt), "<", EntityLt), "&", EntityAmp)

(* xml.sax.saxutils.escape *)
escape(s) == replace(replace(replace(s, "&", EntityAmp), ">", EntityGt), "<", EntityLt)

(* step.get(k, "") has a strip method *)
HasText(step, k) == step.t = "map" /\ (k \in DOMAIN step.v => step.v[k].t = "str")

(* escape(step.get(k, "").strip()) *)
StepText(step, k) == escape(strip(IF k \in DOMAIN step.v THEN step.v[k].v ELSE <<>>))

StepType(action, expected) == IF expected # <<>> THEN ValidateStep ELSE ActionStep

(* Mutant of StepXml: the step's id counts from 0. *)
StepXml_from_zero(i, action, expected) ==
    XmlStepHead \o Dec(i - 1) \o XmlStepType \o StepType(action, expected) \o XmlAttrEnd
    \o XmlParamOpen \o action \o XmlParamClose
    \o XmlParamOpen \o expected \o XmlParamClose
    \o XmlStepTail

(* The part appended for step i. *)
StepXml(i, action, expected) ==
    XmlStepHead \o Dec(i) \o XmlStepType \o StepType(action, expected) \o XmlAttrEnd
    \o XmlParamOpen \o action \o XmlParamClose
    \o XmlParamOpen \o expected \o XmlParamClose
    \o XmlStepTail

(* The loop over enumerate(steps, 1), from step i on, parts joined. *)
RECURSIVE FormatLoop(_, _, _)
FormatLoop(steps, i, xml_parts) ==
    IF i > Len(steps) THEN Returned(xml_parts \o XmlStepsTail)
    ELSE IF ~(HasText(steps[i], "action") /\ HasText(steps[i], "expected"))
    THEN Raised("AttributeError")
    ELSE FormatLoop(steps, i + 1,
             xml_parts \o StepXml(i, StepText(steps[i], "action"),
                                     StepText(steps[i], "expected")))

(* not steps *)
Falsy(x) ==
    \/ x.t \in {"null", "none", "absent"}
    \/ x.t \in {"list", "str"} /\ Len(x.v) = 0
    \/ x.t = "int" /\ x.v = 0

format_test_steps(steps) ==
    IF Falsy(steps) THEN Returned(<<>>)
    ELSE IF steps.t # "list" THEN Raised("AttributeError")
    ELSE FormatLoop(steps.v, 1, XmlStepsHead \o Dec(Len(steps.v)) \o XmlAttrEnd)

(* The copy of _format_test_steps in server/mcp_server/ado_client.py *)

(* \n  <step id=" *)
ServerStepHead ==
    <<"\n", " ", " ", "<", "s", "t", "e", "p", " ", "i", "d", "=", "\"">>

(* " type="ActionStep">\n     *)
ServerStepType ==
    <<"\"", " ", "t", "y", "p", "e", "=", "\"", "A", "c", "t", "i", "o",
      "n", "S", "t", "e", "p", "\"", ">", "\n", " ", " ", " ", " ">>

(* <parameterizedString isformatted="true"><![CDATA[<div><p> *)
ServerParamOpen ==
    <<"<", "p", "a", "r", "a", "m", "e", "t", "e", "r", "i", "z", "e", "d",
      "S", "t", "r", "i", "n", "g", " ", "i", "s", "f", "o", "r", "m", "a",
      "t", "t", "e", "d", "=", "\"", "t", "r", "u", "e", "\"", ">", "<",
      "!", "[", "C", "D", "A", "T", "A", "[", "<", "d", "i", "v", ">", "<",
      "p", ">">>

(* </p></div>]]></parameterizedString> *)
ServerParamClose ==
    <<"<", "/", "p", ">", "<", "/", "d", "i", "v", ">", "]", "]", ">", "<",
      "/", "p", "a", "r", "a", "m", "e", "t", "e", "r", "i", "z", "e", "d",
      "S", "t", "r", "i", "n", "g", ">">>

(* \n     *)
ServerBetween ==
    <<"\n", " ", " ", " ", " ">>

(* \n    <description />\n  </step> *)
ServerStepTail ==
    <<"\n", " ", " ", " ", " ", "<", "d", "e", "s", "c", "r", "i", "p",
      "t", "i", "o", "n", " ", "/", ">", "\n", " ", " ", "<", "/", "s",
      "t", "e", "p", ">">>

ServerStepXml(i, action, expected) ==
    ServerStepHead \o Dec(i) \o ServerStepType
    \o ServerParamOpen \o action \o ServerParamClose \o ServerBetween
    \o ServerParamOpen \o expected \o ServerParamClose
    \o ServerStepTail

RECURSIVE ServerFormatLoop(_, _, _)
ServerFormatLoop(steps, i, parts) ==
    IF i > Len(steps) THEN Returned(parts \o XmlStepsTail)
    ELSE IF ~(HasText(steps[i], "action") /\ HasText(steps[i], "expected"))
    THEN Raised("AttributeError")
    ELSE ServerFormatLoop(steps, i + 1,
             parts \o ServerStepXml(i, StepText(steps[i], "action"),
                                       StepText(steps[i], "expected")))

server_format_test_steps(steps) ==
    IF Falsy(steps) THEN Returned(<<>>)
    ELSE IF steps.t # "list" THEN Raised("AttributeError")
    ELSE ServerFormatLoop(steps.v, 1, XmlStepsHead \o Dec(Len(steps.v)) \o XmlAttrEnd)

(* The steps handed to _format_test_steps *)
CodecStepInputs ==
    { Map([action |-> Str(<<"<", "L", ">">>), expected |-> Str(<<"D", " ", "&", " ", "W">>)]),
      Map([action |-> Str(<<" ", "x", " ">>), expected |-> Str(<<" ">>)]),
      Map([action |-> Str(<<"x">>)]),
      Map([action |-> Str(<<>>), expected |-> Str(<<" ", "y">>)]),
      Map([action |-> Str(<<"&", "l", "t", ";">>),
           expected |-> Str(<<"<", "/", "s", "t", "e", "p", ">">>)]),
      Map([action |-> Str(<<"]", "]", ">">>), expected |-> Str(<<"\"", "&", "&">>)]),
      Map([expected |-> Str(<<"&">>)]),
      Map([action |-> Null, expected |-> Str(<<"y">>)]),
      Str(<<"s">>) }

CodecInputs == {Null} \cup {List(q) : q \in SeqsUpTo(CodecStepInputs, MaxCodecSteps)}

InitCodec ==
    /\ op \in {"format", "server_format"}
    /\ data \in CodecInputs
    /\ validation_type = "single"
    /\ max_retries = 3
    /\ pc = "start"
    /\ attempt = 0
    /\ last_result = None
    /\ last_attempt = 0
    /\ calls = 0
    /\ result = None
    /\ exception = "none"
    /\ second = None
    /\ is_configured = FALSE
    /\ log = <<>>
    /\ payload = None
    /\ response = None
    /\ item = 0
    /\ workflow = None
    /\ connection = None
    /\ test_case_id = None
    /\ is_initialized = FALSE
    /\ max_validation_retries = 0
    /\ tasks = <<>>

FormatTestSteps ==
    /\ op = "format"
    /\ pc = "start"
    /\ Return(format_test_steps(data))
    /\ UNCHANGED <<op, data, validation_type, max_retries, attempt,
                   last_result, last_attempt, calls, second>>
    /\ UNCHANGED tool_vars

ServerFormatTestSteps ==
    /\ op = "server_format"
    /\ pc = "start"
    /\ Return(server_format_test_steps(data))
    /\ UNCHANGED <<op, data, validation_type, max_retries, attempt,
                   last_result, last_attempt, calls, second>>
    /\ UNCHANGED tool_vars

NextCodec ==
    \/ FormatTestSteps
    \/ ServerFormatTestSteps

SpecCodec == InitCodec /\ [][NextCodec]_vars

----------------------------------------------------------------------------
(* Reading an XML text back: its tags and the text between them, the text  *)
(* of a CDATA section taken as it stands.                                  *)

StartsAt(s, pat, i) == i + Len(pat) - 1 <= Len(s) /\ SubSeq(s, i, i + Len(pat) - 1) = pat

(* The least j >= i where pat starts in s, 0 if there is none. *)
RECURSIVE FindSub(_, _, _)
FindSub(s, pat, i) ==
    IF i + Len(pat) - 1 > Len(s) THEN 0
    ELSE IF StartsAt(s, pat, i) THEN i
    ELSE FindSub(s, pat, i + 1)

CDataOpen == <<"<", "!", "[", "C", "D", "A", "T", "A", "[">>

CDataClose == <<"]", "]", ">">>

Blank(text) == \A i \in 1..Len(text) : text[i] \in {" ", "\n"}

Flush(text) == IF Blank(text) THEN <<>> ELSE <<[k |-> "text", v |-> text]>>

BadToken == [k |-> "bad", v |-> <<>>]

RECURSIVE Tokens(_, _, _, _)
TokensAfter(s, i, j, len, text, out) ==
    IF j = 0 THEN Append(out, BadToken)
    ELSE IF len = 0
    THEN Tokens(s, j + 1, <<>>, out \o Flush(text) \o <<[k |-> "tag", v |-> SubSeq(s, i, j)]>>)
    ELSE Tokens(s, j + 3, text \o SubSeq(s, i + len, j - 1), out)

TokensText(s, i, j, text, out) ==
    IF j = 0 THEN out \o Flush(text \o SubSeq(s, i, Len(s)))
    ELSE Tokens(s, j, text \o SubSeq(s, i, j - 1), out)

Tokens(s, i, text, out) ==
    IF i > Len(s) THEN out \o Flush(text)
    ELSE IF StartsAt(s, CDataOpen, i)
    THEN TokensAfter(s, i, FindSub(s, CDataClose, i + Len(CDataOpen)), Len(CDataOpen), text, out)
    ELSE IF s[i] = "<"
    THEN TokensAfter(s, i, FindSub(s, <<">">>, i), 0, text, out)
    ELSE TokensText(s, i, FindSub(s, <<"<">>, i), text, out)

TagKind(tag) ==
    IF tag[2] = "/" THEN "close" ELSE IF tag[Len(tag) - 1] = "/" THEN "empty" ELSE "open"

RECURSIVE NameEnd(_, _)
NameEnd(tag, i) == IF tag[i] \in {" ", "/", ">"} THEN i ELSE NameEnd(tag, i + 1)

NameFrom(tag, i) == SubSeq(tag, i, NameEnd(tag, i) - 1)

TagName(tag) == NameFrom(tag, IF tag[2] = "/" THEN 3 ELSE 2)

NoAttr == <<"?">>

AttrFrom(tag, i, j) == IF i = 0 \/ j = 0 THEN NoAttr ELSE SubSeq(tag, i, j - 1)

AttrAt(tag, i, len) ==
    IF i = 0 THEN NoAttr ELSE AttrFrom(tag, i + len, FindSub(tag, <<"\"">>, i + len))

(* The value of the tag's attribute name. *)
Attr(tag, name) ==
    AttrAt(tag, FindSub(tag, <<" ">> \o name \o <<"=", "\"">>, 1), Len(name) + 3)

IsTag(tok, kind, name) == tok.k = "tag" /\ TagKind(tok.v) = kind /\ TagName(tok.v) = name

Name_steps == <<"s", "t", "e", "p", "s">>
Name_step == <<"s", "t", "e", "p">>
Name_param == <<"p", "a", "r", "a", "m", "e", "t", "e", "r", "i", "z", "e", "d", "S", "t", "r", "i", "n", "g">>
Name_description == <<"d", "e", "s", "c", "r", "i", "p", "t", "i", "o", "n">>
Name_id == <<"i", "d">>
Name_last == <<"l", "a", "s", "t">>
Name_type == <<"t", "y", "p", "e">>

(* The tokens, with an empty text put into every element that has none. *)
RECURSIVE Filled(_, _)
Filled(toks, i) ==
    IF i > Len(toks) THEN <<>>
    ELSE IF toks[i].k = "tag" /\ TagKind(toks[i].v) = "open"
            /\ i < Len(toks) /\ toks[i + 1].k = "tag" /\ TagKind(toks[i + 1].v) = "close"
    THEN <<toks[i], [k |-> "text", v |-> <<>>]>> \o Filled(toks, i + 1)
    ELSE <<toks[i]>> \o Filled(toks, i + 1)

Read(xml) == Filled(Tokens(xml, 1, <<>>, <<>>), 1)

(* The text of an element, its entities replaced by their characters. *)
RECURSIVE Unescape(_)
Unescape(s) ==
    IF Len(s) = 0 THEN <<>>
    ELSE IF StartsAt(s, EntityAmp, 1) THEN <<"&">> \o Unescape(SubSeq(s, 6, Len(s)))
    ELSE IF StartsAt(s, EntityLt, 1) THEN <<"<">> \o Unescape(SubSeq(s, 5, Len(s)))
    ELSE IF StartsAt(s, EntityGt, 1) THEN <<">">> \o Unescape(SubSeq(s, 5, Len(s)))
    ELSE <<Head(s)>> \o Unescape(Tail(s))

(* The text a step gives for field f: absent is empty, and it is trimmed. *)
Given(step, f) == IF f \in DOMAIN step.v THEN strip(step.v[f].v) ELSE <<>>

HtmlOpen == <<"<", "d", "i", "v", ">", "<", "p", ">">>

HtmlClose == <<"<", "/", "p", ">", "<", "/", "d", "i", "v", ">">>

(* What the parameterized string carries: the server copy wraps it. *)
Payload(text) ==
    IF op = "server_format"
    THEN IF StartsAt(text, HtmlOpen, 1) /\ StartsAt(text, HtmlClose, Len(text) - Len(HtmlClose) + 1)
         THEN SubSeq(text, Len(HtmlOpen) + 1, Len(text) - Len(HtmlClose))
         ELSE NoAttr
    ELSE text

(* Tokens b+1 .. b+9 of r are the element of step i of the input. *)
StepElement(r, b, i, step) ==
    /\ IsTag(r[b + 1], "open", Name_step)
    /\ IsDigits(Attr(r[b + 1].v, Name_id))
    /\ ParseInt(Attr(r[b + 1].v, Name_id)) = i
    /\ Attr(r[b + 1].v, Name_type) \in {ValidateStep, ActionStep}
    /\ IsTag(r[b + 2], "open", Name_param)
    /\ r[b + 3].k = "text"
    /\ Unescape(Payload(r[b + 3].v)) = Given(step, "action")
    /\ IsTag(r[b + 4], "close", Name_param)
    /\ IsTag(r[b + 5], "open", Name_param)
    /\ r[b + 6].k = "text"
    /\ Unescape(Payload(r[b + 6].v)) = Given(step, "expected")
    /\ IsTag(r[b + 7], "close", Name_param)
    /\ IsTag(r[b + 8], "empty", Name_description)
    /\ IsTag(r[b + 9], "close", Name_step)

(* r is one steps element holding the elements of the steps, in order. *)
StepsElement(r, steps) ==
    /\ Len(r) = 2 + 9 * Len(steps)
    /\ IsTag(r[1], "open", Name_steps)
    /\ Attr(r[1].v, Name_id) = <<"0">>
    /\ IsDigits(Attr(r[1].v, Name_last))
    /\ ParseInt(Attr(r[1].v, Name_last)) = Len(steps)
    /\ \A i \in 1..Len(steps) : StepElement(r, 1 + 9 * (i - 1), i, steps[i])
    /\ IsTag(r[Len(r)], "close", Name_steps)

CodecDone == op \in {"format", "server_format"} /\ pc = "done" /\ exception = "none"

(* C16: _format_test_steps returns the empty string for no steps, and for  *)
(* N >= 1 steps one steps element with id "0" and last N that holds        *)
(* exactly N step elements with the ids 1..N in the order of the input,    *)
(* each holding the parameterized string of the step's action, that of its *)
(* expected result, and an empty description element.                      *)
C16_StepStructure ==
    CodecDone =>
        IF Falsy(data) THEN result = <<>>
        ELSE result # <<>> /\ StepsElement(Read(result), data.v)

C16_Witness ==
    /\ CodecDone
    /\ op = "format"
    /\ data.t = "list"
    /\ Len(data.v) = MaxCodecSteps
    /\ Len(Read(result)) = 2 + 9 * MaxCodecSteps
    /\ Attr(Read(result)[2 + 9 * (MaxCodecSteps - 1)].v, Name_id) = Dec(MaxCodecSteps)

----------------------------------------------------------------------------
NonEmptySteps == data.t = "list" /\ Len(data.v) >= 1

(* The type attribute of the element of step i. *)
TypeOf(r, i) == Attr(r[2 + 9 * (i - 1)].v, Name_type)

C17_Types(r, steps) ==
    \A i \in 1..Len(steps) :
        TypeOf(r, i) = IF Given(steps[i], "expected") # <<>> THEN ValidateStep
                       ELSE ActionStep

(* C17: in the output of _format_test_steps the type of step i is          *)
(* ValidateStep exactly when the expected result of the i-th input step is *)
(* non-empty after trimming, and ActionStep exactly when it is empty after *)
(* trimming or absent; the rest of the element is the same in both cases.  *)
C17_TypeDiscriminator ==
    (CodecDone /\ NonEmptySteps)
        => StepsElement(Read(result), data.v) /\ C17_Types(Read(result), data.v)

----------------------------------------------------------------------------
Unsafe == {"<", ">", "&"}

HasUnsafe(step) ==
    \E f \in DOMAIN step.v : \E i \in 1..Len(step.v[f].v) : step.v[f].v[i] \in Unsafe

(* No "<" or ">" in the text, and every "&" starts an entity. *)
Escaped(text) ==
    \A i \in 1..Len(text) :
        /\ text[i] \notin {"<", ">"}
        /\ text[i] = "&" => \E e \in {EntityAmp, EntityLt, EntityGt} : StartsAt(text, e, i)

Count_lt(xml) == Cardinality({i \in 1..Len(xml) : xml[i] = "<"})

(* C18: for steps whose action or expected result contains "<", ">" or "&" *)
(* the output of _format_test_steps (mcp_server/ado_client.py) has none of *)
(* these characters unescaped in a text position: the output is the steps  *)
(* element of exactly the given steps, it has no "<" besides those of its  *)
(* 2 + 7N tags, and every text in it is escaped and reads back as given.   *)
C18_InjectionSafe ==
    (CodecDone /\ op = "format" /\ NonEmptySteps)
        => /\ StepsElement(Read(result), data.v)
           /\ Count_lt(result) = 2 + 7 * Len(data.v)
           /\ \A i \in 1..Len(Read(result)) :
                  Read(result)[i].k = "text" => Escaped(Read(result)[i].v)

C18_Witness ==
    /\ CodecDone
    /\ op = "format"
    /\ NonEmptySteps
    /\ Len(data.v) = 2
    /\ HasUnsafe(data.v[1])
    /\ HasUnsafe(data.v[2])
    /\ \E i \in 1..Len(result) : StartsAt(result, EntityLt \o <<"/", "s", "t", "e", "p">> \o EntityGt, i)

----------------------------------------------------------------------------
(* The tools create_testcase, update_testcase and                          *)
(* generate_testcases_from_story of mcp_tools.py with the methods of       *)
(* ADOClient they call. The log holds, in the order of the code, every     *)
(* call of the validator, every call of _format_test_steps and every       *)
(* request sent to the tracker.                                            *)

MaxGenerated == 2

MaxConfigures == 1

DefaultMaxRetries == 3

Event(e, arg, out) == [e |-> e, arg |-> arg, out |-> out]

(* A request to the tracker: its kind, what it carries and the connection  *)
(* (base_url, project and headers of the client) it is sent on.            *)
Request(kind, fields, to) == [e |-> "request", arg |-> kind, out |-> fields, to |-> to]

(* validate_with_retry as a function of its arguments and of max_retries:  *)
(* the result it returns and the validator calls it makes.                 *)
RECURSIVE RetryLoop(_, _, _, _, _, _)
RECURSIVE RetryAfter(_, _, _, _, _, _)
RetryLoop(d, type, n, att, last, made) ==
    IF ~(att < n)
    THEN [value |-> IF last # None THEN last
                    ELSE ValidationResult(FALSE,
                             <<"Validation failed after maximum retries">>, None),
          calls |-> made]
    ELSE IF type = "single"
    THEN RetryAfter(d, type, n, att + 1, validate_single_testcase(d).value, made + 1)
    ELSE IF type = "batch"
    THEN RetryAfter(d, type, n, att + 1, validate_testcase_batch(d).value, made + 1)
    ELSE [value |-> ValidationResult(FALSE, <<"Unknown validation type: " \o type>>, None),
          calls |-> made]

RetryAfter(d, type, n, att, r, made) ==
    IF r.is_valid THEN [value |-> r, calls |-> made]
    ELSE RetryLoop(d, type, n, att, r, made)

validate_with_retry(d, type, n) == RetryLoop(d, type, n, 0, None, 0)

(* The validator calls of one validation, appended to the log lg. *)
Validated(lg, d, r, made) == lg \o [i \in 1..made |-> Event("validate", d, r)]

(* The mapping built from the validated test case. *)
testcase_dict(tc) == FieldsOf(tc)

get_schema_documentation ==
    [test_case_schema |->
        [title |-> "string (required, 1-255 chars)",
         description |-> "string (required, min 1 char)",
         steps |-> "array (required, min 1 item)",
         priority |-> "integer (optional, 1-4, default: 2)"],
     test_step_schema |->
        [action |-> "string (required, min 1 char)",
         expected |-> "string (required, min 1 char)"],
     example |->
        [title |-> "Login with valid credentials",
         description |-> "Verify that user can login with correct username and password",
         steps |-> <<[action |-> "Navigate to login page",
                      expected |-> "Login form is displayed"],
                     [action |-> "Enter valid username and password",
                      expected |-> "Credentials are accepted"],
                     [action |-> "Click login button",
                      expected |-> "User is redirected to dashboard"]>>,
         priority |-> 2],
     validation_rules |->
        <<"Title and description cannot be empty",
          "At least one test step is required",
          "Test steps must have both action and expected fields",
          "Priority must be between 1 and 4",
          "All text fields are trimmed of whitespace">>]

(* The tool's answer to a payload the validator rejects. *)
Rejected(r) ==
    [success |-> FALSE, error |-> "Test case schema validation failed",
     validation_errors |-> r.errors, schema_help |-> get_schema_documentation]

(* The fields of the work item that ADOClient.create_testcase sends. *)
CreateFields(tc, steps_xml) ==
    [k \in {"title", "priority"}
           \cup (IF steps_xml = None THEN {} ELSE {"steps"})
           \cup (IF Falsy(Get(tc, "description")) THEN {} ELSE {"description"}) |->
        IF k = "title" THEN tc["title"]
        ELSE IF k = "priority" THEN (IF "priority" \in DOMAIN tc THEN tc["priority"] ELSE Num(2))
        ELSE IF k = "steps" THEN steps_xml
        ELSE tc["description"]]

(* What a call of the client did before it suspends or ends: the log,     *)
(* whether a request is out, and the result if it returned (or what it    *)
(* raised).                                                               *)
Sent(lg, kind, fields, at) ==
    [log |-> Append(lg, Request(kind, fields, connection)), sent |-> TRUE,
     pc |-> at, result |-> None]

ClientReturned(lg, kind, r) ==
    [log |-> Append(lg, Event("return", kind, r)), sent |-> FALSE, pc |-> "done",
     result |-> r]

ClientRaised(lg, kind, e) ==
    [log |-> Append(lg, Event("raise", kind, e)), sent |-> FALSE, pc |-> "done",
     result |-> [raised |-> e]]

NotConfigured ==
    [success |-> FALSE, error |-> "ADO client not configured",
     error_code |-> "NOT_CONFIGURED"]

MissingTitle ==
    [success |-> FALSE, error |-> "Test case title is required",
     error_code |-> "MISSING_TITLE"]

UnexpectedError(e) ==
    [success |-> FALSE, error |-> "Unexpected error: " \o e,
     error_code |-> "UNEXPECTED_ERROR"]

CreateWithSteps(tc, lg, xml) ==
    IF xml.exception # "none"
    THEN ClientReturned(Append(lg, Event("format", tc["steps"], None)), "create",
                        UnexpectedError(xml.exception))
    ELSE Sent(Append(lg, Event("format", tc["steps"], xml.value)), "create",
              CreateFields(tc, xml.value), "create_sent")

(* ADOClient.create_testcase up to its request *)
ado_create_testcase(tc, lg) ==
    IF ~is_configured THEN ClientReturned(lg, "create", NotConfigured)
    ELSE IF Falsy(Get(tc, "title")) THEN ClientReturned(lg, "create", MissingTitle)
    ELSE IF Falsy(Get(tc, "steps"))
    THEN Sent(lg, "create", CreateFields(tc, None), "create_sent")
    ELSE CreateWithSteps(tc, lg, format_test_steps(tc["steps"]))

(* The tool's error_result for an exception e of the update. *)
UpdateFailed(e) ==
    [success |-> FALSE, error |-> e, message |-> "Failed to update test case"]

(* The operations that ADOClient.update_testcase sends. *)
UpdateOperations(u, steps_xml) ==
    [k \in DOMAIN u \cap {"title", "description", "priority", "steps", "state"} |->
        IF k = "steps" THEN steps_xml ELSE u[k]]

UpdateWithSteps(u, lg, xml) ==
    IF xml.exception # "none"
    THEN ClientRaised(Append(lg, Event("format", u["steps"], None)), "update",
                      xml.exception)
    ELSE Sent(Append(lg, Event("format", u["steps"], xml.value)), "update",
              UpdateOperations(u, xml.value), "update_sent")

(* ADOClient.update_testcase up to its request *)
ado_update_testcase(u, lg) ==
    IF ~is_configured THEN ClientRaised(lg, "update", "ADO client not configured")
    ELSE IF "steps" \in DOMAIN u THEN UpdateWithSteps(u, lg, format_test_steps(u["steps"]))
    ELSE Sent(lg, "update", UpdateOperations(u, None), "update_sent")

(* all(key in updates for key in ["title", "description", "steps"]) *)
Complete(u) == {"title", "description", "steps"} \subseteq DOMAIN u

(* Mutant of NormalizedUpdates: the caller's other keys are kept. *)
NormalizedUpdates_keep_rest(u, tc) ==
    [k \in {"title", "description", "steps"}
           \cup (IF "priority" \in DOMAIN u /\ tc.priority # Null
                 THEN {"priority"} ELSE {})
           \cup (DOMAIN u \ {"priority"}) |->
        IF k \in DOMAIN FieldsOf(tc).v THEN FieldsOf(tc).v[k] ELSE u[k]]

(* The updates rebuilt from the validated test case tc, None values removed. *)
NormalizedUpdates(u, tc) ==
    [k \in {"title", "description", "steps"}
           \cup (IF "priority" \in DOMAIN u /\ tc.priority # Null
                 THEN {"priority"} ELSE {}) |-> FieldsOf(tc).v[k]]

SchemaValidation == [schema_validation |-> [passed |-> TRUE, validator_used |-> TRUE]]

(* The outcomes of traceability_manager.register_test_case after the      *)
(* client's result r: it is called only for a created test case and an    *)
(* initialized manager, and then returns or raises.                       *)
Registrations(r) ==
    IF "success" \in DOMAIN r /\ r.success /\ is_initialized /\ op \in {"create", "generate"}
    THEN {"registered", "raised"}
    ELSE {"skipped"}

(* testcase_data.get("title", f"Test Case {i+1}") *)
SubmittedTitle(d, index) ==
    IF "title" \in DOMAIN d.v THEN d.v["title"]
    ELSE Str(<<"T", "e", "s", "t", " ", "C", "a", "s", "e", " ">> \o Dec(index + 1))

(* workflow_result after the creation of the item at index ended with r   *)
(* and the registration with registered; tc is testcase_dict.             *)
Counted(wf, index, r, registered, tc) ==
    IF r.success /\ registered = "raised"
    THEN [wf EXCEPT !.created_count = @ + 1,
                    !.failed_validation = @ + 1,
                    !.validation_errors =
                        Append(@, [index |-> index,
                                   title |-> SubmittedTitle(data.v[index + 1], index),
                                   error |-> "RegistrationError"])]
    ELSE IF r.success
    THEN [wf EXCEPT !.created_count = @ + 1,
                    !.results = Append(@, [index |-> index,
                                           test_case_id |-> r.test_case_id,
                                           title |-> tc.v["title"],
                                           validation_passed |-> TRUE,
                                           creation_passed |-> TRUE])]
    ELSE [wf EXCEPT !.failed_creation = @ + 1,
                    !.creation_errors = Append(@, [index |-> index,
                                                   title |-> tc.v["title"],
                                                   error |-> r.error,
                                                   validation_passed |-> TRUE,
                                                   creation_passed |-> FALSE])]

CreateFailed(e) ==
    [success |-> FALSE, error |-> e, message |-> "Failed to create test case"]

(* What the tool create_testcase returns after the client's result r. *)
CreateToolResult(r, registered) ==
    IF registered = "raised" THEN CreateFailed("RegistrationError")
    ELSE IF registered = "registered"
    THEN [traceability |-> "trace_result"] @@ SchemaValidation @@ r
    ELSE SchemaValidation @@ r

(* What the tool update_testcase returns after the client's call with u. *)
UpdateToolResult(r, u) ==
    IF "raised" \in DOMAIN r THEN UpdateFailed(r.raised)
    ELSE IF Complete(u.v) THEN SchemaValidation @@ r
    ELSE r

(* The tool goes on with the client's result r, wf being workflow_result. *)
ToolReturn(r, wf, registered) ==
    IF op = "generate"
    THEN /\ workflow' = Counted(wf, item - 1, r, registered, payload')
         /\ item' = item + 1
         /\ pc' = "start"
         /\ UNCHANGED response
    ELSE /\ response' = IF op = "create" THEN CreateToolResult(r, registered)
                        ELSE UpdateToolResult(r, payload')
         /\ pc' = "done"
         /\ UNCHANGED <<item, workflow>>

(* The tool after the part of the client call that runs without waiting. *)
AfterClient(out, wf) ==
    /\ log' = out.log
    /\ UNCHANGED test_case_id
    /\ IF out.sent
       THEN pc' = out.pc /\ workflow' = wf /\ UNCHANGED <<response, item>>
       ELSE ToolReturn(out.result, wf, "skipped")

CreateValidated(r) ==
    IF ~r.is_valid
    THEN /\ log' = Validated(log, data, r, 1)
         /\ response' = Rejected(r)
         /\ pc' = "done"
         /\ UNCHANGED <<payload, item, workflow, test_case_id>>
    ELSE /\ payload' = testcase_dict(r.validated_data)
         /\ AfterClient(ado_create_testcase(testcase_dict(r.validated_data).v,
                                            Validated(log, data, r, 1)), workflow)

(* The tool create_testcase up to the request *)
CreateTool ==
    /\ op = "create"
    /\ pc = "start"
    /\ CreateValidated(validate_single_testcase(data).value)
    /\ UNCHANGED <<op, data, validator_vars, is_configured, connection, fixed_vars>>

UpdateValidated(r) ==
    IF ~r.is_valid
    THEN /\ log' = Validated(log, data, r, 1)
         /\ response' = Rejected(r)
         /\ pc' = "done"
         /\ UNCHANGED <<payload, item, workflow, test_case_id>>
    ELSE /\ payload' = Map(NormalizedUpdates(data.v, r.validated_data))
         /\ AfterClient(ado_update_testcase(NormalizedUpdates(data.v, r.validated_data),
                                            Validated(log, data, r, 1)), workflow)

(* The tool update_testcase up to the request *)
UpdateTool ==
    /\ op = "update"
    /\ pc = "start"
    /\ IF Complete(data.v)
       THEN UpdateValidated(validate_single_testcase(data).value)
       ELSE payload' = data /\ AfterClient(ado_update_testcase(data.v, log), workflow)
    /\ UNCHANGED <<op, data, validator_vars, is_configured, connection, fixed_vars>>

(* What the tool validate_testcase_schema returns for the result r. *)
SchemaChecked(r) ==
    IF r.is_valid
    THEN [success |-> TRUE, validation_passed |-> TRUE, errors |-> r.errors,
          warnings |-> <<>>, message |-> "Test case schema validation passed",
          validated_data |->
              [title |-> r.validated_data.title,
               description |-> r.validated_data.description,
               steps_count |-> Len(r.validated_data.steps),
               priority |-> r.validated_data.priority]]
    ELSE [success |-> TRUE, validation_passed |-> FALSE, errors |-> r.errors,
          warnings |-> <<>>, message |-> "Test case schema validation failed",
          help |-> get_schema_documentation]

SchemaValidated(r) ==
    /\ log' = Validated(log, data, r, 1)
    /\ response' = SchemaChecked(r)

(* The tool validate_testcase_schema *)
ValidateSchemaTool ==
    /\ op = "validate_schema"
    /\ pc = "start"
    /\ SchemaValidated(validate_single_testcase(data).value)
    /\ pc' = "done"
    /\ UNCHANGED <<op, data, validator_vars, is_configured, connection, fixed_vars,
                   payload, item, workflow, test_case_id>>

GenerateFailed(e) ==
    [success |-> FALSE, error |-> e,
     message |-> "Failed to execute test case generation workflow"]

GenerateValidated(d, vr) ==
    IF ~vr.value.is_valid
    THEN /\ log' = Validated(log, d, vr.value, vr.calls)
         /\ UNCHANGED <<payload, test_case_id>>
         /\ IF d.t # "map"
            THEN /\ response' = GenerateFailed("AttributeError")
                 /\ pc' = "done"
                 /\ UNCHANGED <<item, workflow>>
            ELSE /\ workflow' = [workflow EXCEPT
                       !.failed_validation = @ + 1,
                       !.validation_errors =
                           Append(@, [index |-> item - 1,
                                      title |-> SubmittedTitle(d, item - 1),
                                      errors |-> vr.value.errors])]
                 /\ item' = item + 1
                 /\ UNCHANGED <<pc, response>>
    ELSE /\ payload' = testcase_dict(vr.value.validated_data)
         /\ AfterClient(ado_create_testcase(testcase_dict(vr.value.validated_data).v,
                                            Validated(log, d, vr.value, vr.calls)),
                        [workflow EXCEPT !.validated_count = @ + 1])

(* One iteration of the loop of generate_testcases_from_story, up to the   *)
(* request or to the next iteration.                                       *)
GenerateItem ==
    /\ op = "generate"
    /\ pc = "start"
    /\ item <= Len(data.v)
    /\ GenerateValidated(data.v[item],
                         validate_with_retry(data.v[item], "single", max_retries))
    /\ UNCHANGED <<op, data, validator_vars, is_configured, connection, fixed_vars>>

(* workflow_result with success and message set *)
Completed(wf) == [wf EXCEPT !.success = wf.created_count > 0]

(* The loop is over: the tool adds the traceability entry of the created   *)
(* test cases, which returns or raises, and returns.                       *)
GenerateDone ==
    /\ op = "generate"
    /\ pc = "start"
    /\ item > Len(data.v)
    /\ \E added \in IF workflow.created_count > 0 /\ is_initialized
                    THEN {"added", "raised"} ELSE {"skipped"} :
          response' = IF added = "raised" THEN GenerateFailed("TraceabilityError")
                      ELSE Completed(workflow)
    /\ pc' = "done"
    /\ UNCHANGED <<op, data, validator_vars, is_configured, connection, fixed_vars,
                   log, payload, item, workflow, test_case_id>>

(* What the tracker answers: the status, the raw body and the body parsed  *)
(* as JSON. NoAnswer: the request raised instead (the connection failed).  *)
Answer(status, text, json) == [status |-> status, text |-> text, json |-> json]

NotJson == None

NoAnswer == [status |-> "none"]

(* The body {"id": n} *)
Body(n) == Map([id |-> Num(n)])

CreateAnswers ==
    { Answer(200, "{\"id\": 7}", Body(7)),
      Answer(201, "{\"id\": 8}", Body(8)),
      Answer(202, "{\"id\": 9}", Body(9)),
      Answer(200, "{}", Map(EmptyMap)),
      Answer(400, "TF401320", NotJson),
      NoAnswer }

LinkAnswers ==
    { Answer(200, "{\"id\": 7}", Body(7)),
      Answer(404, "TF401232", NotJson),
      NoAnswer }

UpdateAnswers ==
    { Answer(200, "{\"id\": 7}", Body(7)),
      Answer(201, "{\"id\": 7}", Body(7)),
      Answer(204, "", NotJson),
      Answer(400, "TF401320", NotJson),
      Answer(200, "<html>", NotJson),
      NoAnswer }

(* Mutant of Accepted: any 2xx status is taken as success. *)
Accepted_any_2xx(status) == status \in 200..299

(* response.status in [200, 201] *)
Accepted(status) == status \in {200, 201}

ApiError(answer) ==
    [success |-> FALSE, error |-> "ADO API failed to create test case: " \o answer.text,
     status_code |-> answer.status, error_code |-> "ADO_API_ERROR"]

InvalidResponse ==
    [success |-> FALSE, error |-> "No test case ID returned from ADO",
     error_code |-> "INVALID_RESPONSE"]

(* The part of create_testcase from the answer to its request on: what it  *)
(* returns, or None when it goes on to the link request.                   *)
CreateAnswered(answer) ==
    IF answer = NoAnswer THEN UnexpectedError("ClientError")
    ELSE IF ~Accepted(answer.status) THEN ApiError(answer)
    ELSE IF answer.json = NotJson THEN UnexpectedError("ContentTypeError")
    ELSE IF Falsy(Get(answer.json.v, "id")) THEN InvalidResponse
    ELSE None

(* The answer as the log holds it: a request that raised has none. *)
Responded(kind, answer) ==
    IF answer = NoAnswer THEN <<>> ELSE <<Event("response", kind, answer)>>

(* The tracker answers the request of ADOClient.create_testcase; the       *)
(* client returns, or sends the link request on its connection as it is    *)
(* now.                                                                    *)
CreateResponded(answer, r) ==
    IF r = None
    THEN /\ log' = log \o <<Event("response", "create", answer),
                            Request("link", answer.json.v["id"], connection)>>
         /\ test_case_id' = answer.json.v["id"]
         /\ pc' = "link_sent"
         /\ UNCHANGED <<response, item, workflow>>
    ELSE /\ log' = log \o Responded("create", answer) \o <<Event("return", "create", r)>>
         /\ ToolReturn(r, workflow, "skipped")
         /\ UNCHANGED test_case_id

CreateResponse ==
    /\ pc = "create_sent"
    /\ UNCHANGED <<op, data, validator_vars, is_configured, connection, fixed_vars, payload>>
    /\ \E answer \in CreateAnswers : CreateResponded(answer, CreateAnswered(answer))

(* What _link_test_case_to_user_story returns for the tracker's answer. *)
link_result(answer) ==
    [success |-> Accepted(answer.status), status_code |-> answer.status,
     error |-> IF ~Accepted(answer.status) THEN answer.text ELSE None]

(* The result of create_testcase after the link request. *)
Created(id, link) ==
    IF ~link.success
    THEN [success |-> TRUE, test_case_id |-> id, link_success |-> link.success,
          link_warning |-> link.error]
    ELSE [success |-> TRUE, test_case_id |-> id, link_success |-> link.success]

LinkAnswered(answer) ==
    IF answer = NoAnswer THEN UnexpectedError("ClientError")
    ELSE Created(test_case_id, link_result(answer))

LinkResponded(answer, r) ==
    /\ log' = log \o Responded("link", answer) \o <<Event("return", "create", r)>>
    /\ \E registered \in Registrations(r) : ToolReturn(r, workflow, registered)

(* The tracker answers the request of _link_test_case_to_user_story. *)
LinkResponse ==
    /\ pc = "link_sent"
    /\ UNCHANGED <<op, data, validator_vars, is_configured, connection, fixed_vars,
                   payload, test_case_id>>
    /\ \E answer \in LinkAnswers : LinkResponded(answer, LinkAnswered(answer))

Updated ==
    [success |-> TRUE, test_case_id |-> "testcase_id", updated_fields |-> DOMAIN payload.v]

UpdateRefused(answer) ==
    [success |-> FALSE, error |-> "Failed to update test case: " \o answer.text,
     status_code |-> answer.status]

(* The part of update_testcase from the answer to its request on. *)
UpdateAnswered(lg, answer) ==
    IF answer = NoAnswer THEN ClientRaised(lg, "update", "ClientError")
    ELSE IF ~Accepted(answer.status)
    THEN ClientReturned(Append(lg, Event("response", "update", answer)), "update",
                        UpdateRefused(answer))
    ELSE IF answer.json = NotJson
    THEN ClientRaised(Append(lg, Event("response", "update", answer)), "update",
                      "ContentTypeError")
    ELSE ClientReturned(Append(lg, Event("response", "update", answer)), "update", Updated)

(* The tracker answers the request of ADOClient.update_testcase. *)
UpdateResponse ==
    /\ pc = "update_sent"
    /\ UNCHANGED <<op, data, validator_vars, is_configured, connection, fixed_vars, payload>>
    /\ \E answer \in UpdateAnswers : AfterClient(UpdateAnswered(log, answer), workflow)

(* What configure stores for an organization, a project and a token. *)
Connection(organization, project, personal_access_token) ==
    [base_url |-> "https://dev.azure.com/" \o organization, project |-> project,
     headers |-> [Authorization |-> "Basic :" \o personal_access_token]]

Connections == { Connection("org-a", "P", "t1"), Connection("org-b", "Q", "t2") }

Configures == Len(SelectSeq(log, LAMBDA ev : ev.e = "configure"))

(* Another task calls the tool configure_ado_connection while a call of    *)
(* create_testcase or update_testcase is in progress: it configures the    *)
(* shared client and sends the request of test_connection, whose answer    *)
(* changes nothing of the client.                                          *)
Configure ==
    /\ op \in {"create", "update"}
    /\ pc # "done"
    /\ Configures < MaxConfigures
    /\ \E c \in Connections :
          /\ connection' = c
          /\ log' = log \o <<Event("configure", c, None), Request("test", None, c)>>
    /\ is_configured' = TRUE
    /\ UNCHANGED <<op, data, pc, validator_vars, fixed_vars, payload, response, item,
                   workflow, test_case_id>>

(* The payloads given to the tools *)
ToolStepsInputs ==
    { List(<<>>),
      List(<<Map([action |-> Str(<<" ", "x", " ">>), expected |-> Str(<<" ", "y", " ">>)])>>),
      List(<<Map([action |-> Str(<<"x">>), expected |-> Str(<<" ">>)])>>),
      List(<<Map([action |-> Str(<<"<", "L", ">">>), expected |-> Str(<<"D", " ", "&", " ", "W">>)]),
             Map([action |-> Str(<<"y">>), expected |-> Str(<<" ", "x">>)])>>),
      List(<<Map([action |-> Str(<<>>)])>>),
      List(<<Str(<<"s">>)>>) }

ToolInputs ==
    { Map(t @@ d @@ s @@ p) :
        t \in Opt("title", { Str(<<" ", "a", " ">>), Str(<<>>) }),
        d \in Opt("description", { Str(<<" ", "d", " ", "d", " ">>) }),
        s \in Opt("steps", ToolStepsInputs),
        p \in Opt("priority", { Null, Num(4), Num(5), Str(<<"3">>) }) }
    \cup {List(<<>>)}

UpdateInputs ==
    { Map(u.v @@ st) : u \in ToolInputs \ {List(<<>>)},
                       st \in Opt("state", {Str(<<"C", "l", "o", "s", "e", "d">>)}) }

(* The items submitted to generate_testcases_from_story: a valid test case, *)
(* one whose priority is null, one with an empty expected result, and a    *)
(* value that is no mapping.                                               *)
GeneratedInputs ==
    { d \in ToolInputs :
        d.t = "map" => /\ {"title", "description", "steps"} \subseteq DOMAIN d.v
                       /\ d.v["title"].v # <<>>
                       /\ Len(d.v["steps"].v) = 1
                       /\ d.v["steps"].v[1].t = "map"
                       /\ "expected" \in DOMAIN d.v["steps"].v[1].v
                       /\ Get(d.v, "priority") \in {Absent, Null}
                       /\ (Get(d.v, "priority") = Null
                              => d.v["steps"].v[1].v["expected"].v # <<" ">>) }

(* workflow_result as the tool builds it before its loop *)
NewWorkflow(submitted) ==
    [success |-> TRUE, total_submitted |-> Len(submitted), validated_count |-> 0,
     created_count |-> 0, failed_validation |-> 0, failed_creation |-> 0,
     results |-> <<>>, validation_errors |-> <<>>, creation_errors |-> <<>>]

InitTools ==
    /\ \/ /\ op \in {"create", "validate_schema"}
          /\ data \in ToolInputs
          /\ workflow = None
          /\ max_validation_retries = DefaultMaxRetries
       \/ /\ op = "update"
          /\ data \in UpdateInputs
          /\ workflow = None
          /\ max_validation_retries = DefaultMaxRetries
       \/ /\ op = "generate"
          /\ data \in {List(q) : q \in SeqsUpTo(GeneratedInputs, MaxGenerated)}
          /\ workflow = NewWorkflow(data.v)
          /\ max_validation_retries \in {1, DefaultMaxRetries}
    /\ is_configured \in BOOLEAN
    /\ connection = IF is_configured THEN Connection("org-a", "P", "t1") ELSE None
    /\ is_initialized \in BOOLEAN
    /\ pc = "start"
    /\ log = <<>>
    /\ payload = None
    /\ response = None
    /\ item = 1
    /\ test_case_id = None
    /\ tasks = <<>>
    /\ validation_type = "single"
    /\ max_retries = DefaultMaxRetries
    /\ attempt = 0
    /\ last_result = None
    /\ last_attempt = 0
    /\ calls = 0
    /\ result = None
    /\ exception = "none"
    /\ second = None

NextTools ==
    \/ CreateTool
    \/ UpdateTool
    \/ ValidateSchemaTool
    \/ GenerateItem
    \/ GenerateDone
    \/ CreateResponse
    \/ LinkResponse
    \/ UpdateResponse
    \/ Configure

SpecTools == InitTools /\ [][NextTools]_vars

----------------------------------------------------------------------------
(* The positions of the log that hold an event e. *)
At(e) == {k \in 1..Len(log) : log[k].e = e}

CreateRequests == {k \in At("request") : log[k].arg = "create"}

(* The last validator call before position k of the log, 0 if none. *)
LastValidate(k) ==
    IF \E j \in At("validate") : j < k
    THEN CHOOSE j \in At("validate") : j < k /\ \A i \in At("validate") : i < k => i <= j
    ELSE 0

(* The request at k carries the fields of the validated test case tc, its  *)
(* steps encoded by a codec call made after the validation at j.           *)
CarriesNormalized(j, k, tc) ==
    /\ log[k].out["title"] = Str(tc.title)
    /\ log[k].out["priority"] = tc.priority
    /\ log[k].out["description"] = Str(tc.description)
    /\ j < k - 1
    /\ log[k - 1].e = "format"
    /\ log[k - 1].arg = FieldsOf(tc).v["steps"]
    /\ log[k].out["steps"] = log[k - 1].out

(* The request at k follows an accepting validation of its payload. *)
C19_ValidatedFirst(k) ==
    /\ LastValidate(k) # 0
    /\ log[LastValidate(k)].out.is_valid
    /\ CarriesNormalized(LastValidate(k), k, log[LastValidate(k)].out.validated_data)

(* The payload the request at k was made for has no violation. *)
C19_NoViolation(k) ==
    /\ log[LastValidate(k)].arg.t = "map"
    /\ WellFormed(log[LastValidate(k)].arg.v)

C19_Ordered ==
    op \in {"create", "generate"} => \A k \in CreateRequests : C19_ValidatedFirst(k)

(* C19: on the create paths (the tool create_testcase and                  *)
(* generate_testcases_from_story) a request to the tracker is made for a   *)
(* payload only after the validation of that payload returned is_valid =   *)
(* true and after the encoding of its steps, with the validator's          *)
(* normalized values; a payload with any violation causes no request.      *)
C19_ValidateEncodeWrite ==
    /\ C19_Ordered
    /\ op \in {"create", "generate"} => \A k \in CreateRequests : C19_NoViolation(k)

----------------------------------------------------------------------------
(* The codec call at k is made on the steps of a test case that an earlier *)
(* validator call accepted, as that call normalized them.                  *)
C20_Validated(k) ==
    \E j \in At("validate") :
        /\ j < k
        /\ log[j].out.is_valid
        /\ log[k].arg = FieldsOf(log[j].out.validated_data).v["steps"]

(* C20: on the update path (the tool update_testcase) the validator is     *)
(* called first and _format_test_steps is called only on steps that the    *)
(* validator accepted and normalized: no other steps value reaches         *)
(* _format_test_steps or the tracker.                                      *)
C20_OnlyValidatedSteps ==
    op = "update"
        => /\ \A k \in At("format") : C20_Validated(k)
           /\ \A k \in At("request") :
                  "steps" \in DOMAIN log[k].out
                      => k > 1 /\ log[k - 1].e = "format" /\ C20_Validated(k - 1)

----------------------------------------------------------------------------
(* The tracker's answers to the write requests of create_testcase and      *)
(* update_testcase, and the results these methods return.                  *)
Writes == {"create", "update"}

WriteAnswers == {k \in At("response") : log[k].arg \in Writes}

WriteReturns == {k \in At("return") : log[k].arg \in Writes}

(* The last answer to a write request before position k, 0 if none. *)
LastWriteAnswer(k) ==
    IF \E j \in WriteAnswers : j < k
    THEN CHOOSE j \in WriteAnswers : j < k /\ \A i \in WriteAnswers : i < k => i <= j
    ELSE 0

HasIdentifier(answer) == answer.json.t = "map" /\ "id" \in DOMAIN answer.json.v

(* The answer lets the method report success. *)
C21_Good(kind, answer) ==
    /\ answer.status \in {200, 201}
    /\ kind = "create" => HasIdentifier(answer)

ErrorPrefixes == {"ADO API failed to create test case: ", "Failed to update test case: "}

(* The error text is made of a prefix and the raw body. *)
ContainsBody(error, text) == \E p \in ErrorPrefixes : error = p \o text

(* The method returns success only after a good answer to its write. *)
C21_SuccessOnlyWhenAccepted(k) ==
    log[k].out.success
        => /\ LastWriteAnswer(k) # 0
           /\ log[LastWriteAnswer(k)].arg = log[k].arg
           /\ C21_Good(log[k].arg, log[LastWriteAnswer(k)].out)

(* An answer with another status is returned at once as a failure that     *)
(* carries the body, no request being made in between.                     *)
C21_OtherStatusFails(k) ==
    log[k].out.status \notin {200, 201}
        => /\ k < Len(log)
           /\ log[k + 1].e = "return"
           /\ log[k + 1].arg = log[k].arg
           /\ ~log[k + 1].out.success
           /\ ContainsBody(log[k + 1].out.error, log[k].out.text)
           /\ \A j \in At("request") : j > k => log[j].arg # "link"

(* C21: ADOClient.create_testcase and ADOClient.update_testcase return     *)
(* success = true only when the tracker answered the write with status 200 *)
(* or 201 (for create: with a body that has an id); for any other status   *)
(* they return success = false with an error text that contains the raw    *)
(* body, and create sends no link request.                                 *)
C21_StatusHandling ==
    op \in Writes
        => /\ \A k \in WriteReturns : C21_SuccessOnlyWhenAccepted(k)
           /\ \A k \in WriteAnswers : C21_OtherStatusFails(k)

C21_Witness ==
    /\ op = "create"
    /\ pc = "done"
    /\ \E k \in WriteAnswers : log[k].out.status = 202 /\ HasIdentifier(log[k].out)
    /\ ~response.success
    /\ response.error = "ADO API failed to create test case: {\"id\": 9}"

----------------------------------------------------------------------------
(* r carries the schema documentation. *)
Documented(r) ==
    \/ "schema_help" \in DOMAIN r /\ r.schema_help = get_schema_documentation
    \/ "help" \in DOMAIN r /\ r.help = get_schema_documentation

(* The result of the validator's call on d, as the log holds it. *)
ResultOn(d) == log[CHOOSE k \in At("validate") : log[k].arg = d].out

RejectedBySchema(d) == (\E k \in At("validate") : log[k].arg = d) /\ ~ResultOn(d).is_valid

(* create_testcase, update_testcase and validate_testcase_schema surface   *)
(* the errors of a rejection and the documentation.                        *)
C22_ToolSurfaces ==
    (op \in {"create", "update", "validate_schema"} /\ pc = "done" /\ RejectedBySchema(data))
        => /\ Documented(response)
           /\ IF op = "validate_schema" THEN response.errors = ResultOn(data).errors
              ELSE response.validation_errors = ResultOn(data).errors

(* The entry of workflow_result.validation_errors for the index i. *)
EntriesFor(i) ==
    {j \in 1..Len(response.validation_errors) : response.validation_errors[j].index = i}

(* Every rejected item (a mapping, as the tool's signature has it) of      *)
(* generate_testcases_from_story has its errors and the documentation in   *)
(* the response.                                                           *)
C22_WorkflowSurfaces ==
    (op = "generate" /\ pc = "done" /\ "validation_errors" \in DOMAIN response)
        => \A i \in 1..Len(data.v) :
               (data.v[i].t = "map" /\ RejectedBySchema(data.v[i]))
                   => \E j \in EntriesFor(i - 1) :
                          /\ "errors" \in DOMAIN response.validation_errors[j]
                          /\ response.validation_errors[j].errors = ResultOn(data.v[i]).errors
                          /\ Documented(response.validation_errors[j]) \/ Documented(response)

(* C22: whenever a tool rejects a test case because schema validation      *)
(* failed (create_testcase, update_testcase, validate_testcase_schema and  *)
(* each rejected item of generate_testcases_from_story), the response has  *)
(* the validator's errors list unchanged and the schema documentation of   *)
(* get_schema_documentation.                                               *)
C22_ErrorsSurfaced == C22_ToolSurfaces /\ C22_WorkflowSurfaces

----------------------------------------------------------------------------
(* Tasks that call the validator and the codec concurrently. Every task    *)
(* has its own arguments and locals; test_case_validator (its max_retries) *)
(* is shared. A step of a task is a call of validate_single_testcase,      *)
(* validate_testcase_batch or _format_test_steps, or one iteration of the  *)
(* loop of validate_with_retry.                                            *)

MaxTasks == 2

Task(call, d, type) ==
    [call |-> call, data |-> d, validation_type |-> type, pc |-> "start",
     attempt |-> 0, last_result |-> None, result |-> None]

TaskInputs ==
    { Task("single", d, "single") :
        d \in { Map([title |-> Str(<<" ", "a", " ">>), description |-> Str(<<"d">>),
                     steps |-> List(<<GoodStep>>)]),
                Map([title |-> Str(<<>>), steps |-> List(<<>>)]) } }
    \cup { Task("batch", Map([test_cases |-> List(<<Str(<<"s">>)>>),
                               user_story_id |-> Num(1)]), "batch") }
    \cup { Task("retry", d, "single") :
             d \in { Map([title |-> Str(<<"b">>), description |-> Str(<<"d">>),
                          steps |-> List(<<GoodStep>>)]),
                     Map([title |-> Str(<<"b">>), description |-> Str(<<" ">>),
                          steps |-> List(<<GoodStep>>)]),
                     Map([description |-> Str(<<"d">>)]) } }
    \cup { Task("retry", Map([test_cases |-> List(<<>>)]), type) : type \in {"batch", "bulk"} }
    \cup { Task("encode", List(<<st>>), "single") :
             st \in { Map([action |-> Str(<<"<", "L", ">">>), expected |-> Str(<<" ">>)]),
                      Str(<<"s">>) } }

InitTasks ==
    /\ op = "tasks"
    /\ tasks \in SeqsUpTo(TaskInputs, MaxTasks) \ {<<>>}
    /\ max_retries = DefaultMaxRetries
    /\ data = None
    /\ validation_type = "single"
    /\ pc = "start"
    /\ attempt = 0
    /\ last_result = None
    /\ last_attempt = 0
    /\ calls = 0
    /\ result = None
    /\ exception = "none"
    /\ second = None
    /\ is_configured = FALSE
    /\ log = <<>>
    /\ payload = None
    /\ response = None
    /\ item = 0
    /\ workflow = None
    /\ connection = None
    /\ test_case_id = None
    /\ is_initialized = FALSE
    /\ max_validation_retries = 0

(* What a step of a task leaves as it is. *)
task_frame == <<op, data, pc, validator_vars, is_configured, log, payload, response,
                item, workflow, connection, test_case_id, is_initialized,
                max_validation_retries>>

(* The task returns r. *)
Finished(t, r) == [t EXCEPT !.pc = "done", !.result = r]

(* Mutant of attempt_of: attempt is kept on the shared validator, so a     *)
(* task reads what any task counted.                                       *)
attempt_of_shared(ts, i) ==
    CHOOSE a \in {ts[j].attempt : j \in 1..Len(ts)} : \A j \in 1..Len(ts) : ts[j].attempt <= a

(* attempt, a local of the call of task i *)
attempt_of(ts, i) == ts[i].attempt

(* The body of the loop of validate_with_retry after the validator        *)
(* returned r.                                                            *)
TaskAfterAttempt(t, att, r) ==
    IF r.is_valid THEN Finished([t EXCEPT !.attempt = att], r)
    ELSE [t EXCEPT !.attempt = att, !.last_result = r, !.pc = "loop"]

(* One pass of task t through while attempt < self.max_retries, attempt    *)
(* being att.                                                              *)
TaskRetry(t, att) ==
    IF ~(att < max_retries)
    THEN Finished(t, IF t.last_result # None THEN t.last_result
                     ELSE ValidationResult(FALSE,
                              <<"Validation failed after maximum retries">>, None))
    ELSE IF t.validation_type = "single"
    THEN TaskAfterAttempt(t, att + 1, validate_single_testcase(t.data).value)
    ELSE IF t.validation_type = "batch"
    THEN TaskAfterAttempt(t, att + 1, validate_testcase_batch(t.data).value)
    ELSE Finished([t EXCEPT !.attempt = att + 1],
                  ValidationResult(FALSE,
                      <<"Unknown validation type: " \o t.validation_type>>, None))

TaskValidateSingle ==
    \E i \in 1..Len(tasks) :
        /\ tasks[i].call = "single"
        /\ tasks[i].pc = "start"
        /\ tasks' = [tasks EXCEPT ![i] = Finished(@, validate_single_testcase(@.data).value)]
        /\ UNCHANGED task_frame

TaskValidateBatch ==
    \E i \in 1..Len(tasks) :
        /\ tasks[i].call = "batch"
        /\ tasks[i].pc = "start"
        /\ tasks' = [tasks EXCEPT ![i] = Finished(@, validate_testcase_batch(@.data).value)]
        /\ UNCHANGED task_frame

TaskEncode ==
    \E i \in 1..Len(tasks) :
        /\ tasks[i].call = "encode"
        /\ tasks[i].pc = "start"
        /\ tasks' = [tasks EXCEPT ![i] = Finished(@, format_test_steps(@.data))]
        /\ UNCHANGED task_frame

TaskRetryStep ==
    \E i \in 1..Len(tasks) :
        /\ tasks[i].call = "retry"
        /\ tasks[i].pc # "done"
        /\ tasks' = [tasks EXCEPT ![i] = TaskRetry(@, attempt_of(tasks, i))]
        /\ UNCHANGED task_frame

NextTasks ==
    \/ TaskValidateSingle
    \/ TaskValidateBatch
    \/ TaskEncode
    \/ TaskRetryStep

SpecTasks == InitTasks /\ [][NextTasks]_vars

(* What the call of task t returns when it runs alone. *)
Alone(t) ==
    IF t.call = "single" THEN validate_single_testcase(t.data).value
    ELSE IF t.call = "batch" THEN validate_testcase_batch(t.data).value
    ELSE IF t.call = "encode" THEN format_test_steps(t.data)
    ELSE validate_with_retry(t.data, t.validation_type, max_retries).value

C23_SameAsAlone ==
    op = "tasks" => \A i \in 1..Len(tasks) :
                        tasks[i].pc = "done" => tasks[i].result = Alone(tasks[i])

(* A step of a task changes nothing but that task's own locals. *)
C23_OwnStateOnly ==
    /\ max_retries' = max_retries
    /\ Len(tasks') = Len(tasks)
    /\ \A i, j \in 1..Len(tasks) : (tasks'[i] # tasks[i] /\ tasks'[j] # tasks[j]) => i = j

(* C23: for any tasks calling validate_single, validate_batch,             *)
(* validate_with_retry (through the shared validator) and the codec in any *)
(* interleaving, every call returns what it returns when run alone, and no *)
(* call changes state that another call reads.                             *)
C23_ConcurrencySafe == []C23_SameAsAlone /\ [][C23_OwnStateOnly]_vars

C23_Witness ==
    /\ op = "tasks"
    /\ Len(tasks) = MaxTasks
    /\ \A i \in 1..Len(tasks) :
           /\ tasks[i].call = "retry"
           /\ tasks[i].validation_type = "single"
           /\ tasks[i].pc = "done"
           /\ tasks[i].attempt = DefaultMaxRetries
           /\ ~tasks[i].result.is_valid

----------------------------------------------------------------------------
(* C24: with a retry bound of 1 validate_with_retry makes exactly one      *)
(* validator call and returns that call's result, valid or not; with a     *)
(* bound of 0 it returns a ValidationResult (invalid, with an error and no *)
(* validated data) without a validator call and without raising.           *)
C24_LowBounds ==
    /\ (RetryDone /\ max_retries = 1)
           => /\ exception = "none"
              /\ calls = 1
              /\ attempt = 1
              /\ result = OneAttempt
    /\ (op = "retry" /\ pc = "done" /\ max_retries = 0)
           => /\ exception = "none"
              /\ calls = 0
              /\ result # None
              /\ ~result.is_valid
              /\ Len(result.errors) = 1
              /\ result.validated_data = None

C24_Witness ==
    /\ RetryDone
    /\ max_retries = 1
    /\ validation_type = "single"
    /\ calls = 1
    /\ ~result.is_valid
    /\ Len(result.errors) = 2
    /\ result = last_result

----------------------------------------------------------------------------
(* Standard XML escaping of a text, character by character. *)
StdEscapeChar(c) ==
    IF c = "&" THEN EntityAmp
    ELSE IF c = "<" THEN EntityLt
    ELSE IF c = ">" THEN EntityGt
    ELSE <<c>>

RECURSIVE StdEscape(_)
StdEscape(s) == IF Len(s) = 0 THEN <<>> ELSE StdEscapeChar(Head(s)) \o StdEscape(Tail(s))

StepFields == {"action", "expected"}

(* What the output r carries for the field f of step i. *)
ParamText(r, i, f) == Payload(r[1 + 9 * (i - 1) + (IF f = "action" THEN 3 ELSE 6)].v)

C25_Escaped(r, steps) ==
    \A i \in 1..Len(steps) : \A f \in StepFields :
        /\ ParamText(r, i, f) = StdEscape(Given(steps[i], f))
        /\ Unescape(ParamText(r, i, f)) = Given(steps[i], f)

C25_Injective(r, steps) ==
    \A i, j \in 1..Len(steps) : \A f, g \in StepFields :
        Given(steps[i], f) # Given(steps[j], g) => ParamText(r, i, f) # ParamText(r, j, g)

(* C25: what _format_test_steps puts out for a text is the standard XML    *)
(* escaping of exactly "&", "<" and ">" in the trimmed text, no entity     *)
(* escaped twice; unescaping it gives the trimmed text back, and different *)
(* trimmed texts never give the same output.                               *)
C25_EscapingAlgebra ==
    (CodecDone /\ NonEmptySteps)
        => /\ StepsElement(Read(result), data.v)
           /\ C25_Escaped(Read(result), data.v)
           /\ C25_Injective(Read(result), data.v)

C25_Witness ==
    /\ CodecDone
    /\ op = "format"
    /\ NonEmptySteps
    /\ Len(data.v) = 2
    /\ ParamText(Read(result), 1, "action") = EntityAmp \o <<"l", "t", ";">>
    /\ ParamText(Read(result), 2, "action") = EntityLt \o <<"L">> \o EntityGt
    /\ ParamText(Read(result), 2, "expected") = <<"D", " ">> \o EntityAmp \o <<" ", "W">>

----------------------------------------------------------------------------
(* C26: generate_testcases_from_story makes at most max_validation_retries *)
(* validator calls for each submitted test case: its argument              *)
(* max_validation_retries bounds the retry loop of every item.             *)
C26_ArgumentBoundsRetries ==
    op = "generate"
        => Cardinality(At("validate")) <= max_validation_retries * Len(data.v)

----------------------------------------------------------------------------
(* The indices that the list q of entries of workflow_result names. *)
IndicesIn(q) == {q[j].index : j \in 1..Len(q)}

(* The number of the entries of the response's lists that name index i. *)
Listed(i) ==
    Cardinality({j \in 1..Len(response.results) : response.results[j].index = i})
    + Cardinality({j \in 1..Len(response.validation_errors) :
                      response.validation_errors[j].index = i})
    + Cardinality({j \in 1..Len(response.creation_errors) :
                      response.creation_errors[j].index = i})

(* The tool returned workflow_result for a list of mappings. *)
WorkflowReported ==
    /\ op = "generate"
    /\ pc = "done"
    /\ "total_submitted" \in DOMAIN response
    /\ \A i \in 1..Len(data.v) : data.v[i].t = "map"

(* C27: the counters that generate_testcases_from_story reports are        *)
(* consistent, whatever validation, creation and registration did (a       *)
(* registration that raises after a creation included): validated_count +  *)
(* failed_validation = total_submitted, created_count + failed_creation =  *)
(* validated_count, every submitted index is in exactly one of results,    *)
(* validation_errors and creation_errors, and success is true exactly when *)
(* created_count > 0.                                                      *)
C27_CountersConsistent ==
    WorkflowReported
        => /\ response.total_submitted = Len(data.v)
           /\ response.validated_count + response.failed_validation = response.total_submitted
           /\ response.created_count + response.failed_creation = response.validated_count
           /\ \A i \in 0..(Len(data.v) - 1) : Listed(i) = 1
           /\ response.success <=> response.created_count > 0

(* The same for the runs where no registration raised. *)
C27_WithoutRaise ==
    (WorkflowReported
        /\ \A j \in 1..Len(response.validation_errors) :
               "errors" \in DOMAIN response.validation_errors[j])
        => C27_CountersConsistent

----------------------------------------------------------------------------
LinkRequests == {k \in At("request") : log[k].arg = "link"}

(* The first return of the client after position k, 0 if none. *)
ReturnAfter(k) ==
    IF \E r \in At("return") : r > k
    THEN CHOOSE r \in At("return") : r > k /\ \A q \in At("return") : q > k => r <= q
    ELSE 0

(* The link request at k follows the accepted creation whose id it carries *)
(* and is the only one of that call.                                       *)
C28_AfterCreation(k) ==
    /\ LastWriteAnswer(k) # 0
    /\ log[LastWriteAnswer(k)].arg = "create"
    /\ C21_Good("create", log[LastWriteAnswer(k)].out)
    /\ log[k].out = log[LastWriteAnswer(k)].out.json.v["id"]
    /\ \A j \in LinkRequests : LastWriteAnswer(j) = LastWriteAnswer(k) => j = k

(* The answers to the link request at k, up to the return at r. *)
LinkAnswersTo(k, r) == {a \in At("response") : k < a /\ a < r /\ log[a].arg = "link"}

(* The link request at k failed: the call returned at r and the request    *)
(* was answered with another status than 200 or 201.                       *)
LinkRefused(k, r) ==
    r # 0 /\ \E a \in LinkAnswersTo(k, r) : log[a].out.status \notin {200, 201}

(* The link request at k failed: it was refused or it raised. *)
LinkFailed(k, r) == r # 0 /\ \A a \in LinkAnswersTo(k, r) : log[a].out.status \notin {200, 201}

(* The call that sent the link request at k and returned at r reports the  *)
(* creation with a warning and makes no other write.                       *)
C28_StillCreated(k, r) ==
    /\ log[r].out.success
    /\ log[r].out.test_case_id = log[k].out
    /\ ~log[r].out.link_success
    /\ "link_warning" \in DOMAIN log[r].out
    /\ \A j \in At("request") : (k < j /\ j < r) => log[j].arg = "test"

(* C28: in ADOClient.create_testcase the link request is sent only after   *)
(* the tracker accepted the creation with status 200 or 201 and an id, and *)
(* at most once per call; when the link request fails the call still       *)
(* returns success = true with the new test_case_id, link_success = false  *)
(* and a link_warning, and the test case is neither deleted nor created    *)
(* again.                                                                  *)
C28_LinkAfterCreate ==
    op \in {"create", "generate"}
        => \A k \in LinkRequests :
               /\ C28_AfterCreation(k)
               /\ LinkFailed(k, ReturnAfter(k)) => C28_StillCreated(k, ReturnAfter(k))

(* The same for the link requests that the tracker refused. *)
C28_RefusedLink ==
    op \in {"create", "generate"}
        => \A k \in LinkRequests :
               /\ C28_AfterCreation(k)
               /\ LinkRefused(k, ReturnAfter(k)) => C28_StillCreated(k, ReturnAfter(k))

----------------------------------------------------------------------------
UpdateRequests == {k \in At("request") : log[k].arg = "update"}

(* The caller gave a priority that is not null. *)
PriorityGiven(u) == "priority" \in DOMAIN u /\ u["priority"] # Null

(* The request at k carries the title, description and steps of the       *)
(* validated test case tc (its steps encoded), its priority if the caller *)
(* gave one, and nothing else.                                            *)
C29_Rebuilt(k, u, tc) ==
    /\ DOMAIN log[k].out = {"title", "description", "steps"}
                              \cup (IF PriorityGiven(u) THEN {"priority"} ELSE {})
    /\ log[k].out["title"] = Str(tc.title)
    /\ log[k].out["description"] = Str(tc.description)
    /\ log[k - 1].e = "format"
    /\ log[k - 1].arg = FieldsOf(tc).v["steps"]
    /\ log[k].out["steps"] = log[k - 1].out
    /\ PriorityGiven(u) => log[k].out["priority"] = tc.priority

(* Every key of u that update_testcase of the client knows is sent as it   *)
(* was given (the steps encoded).                                          *)
C29_Forwarded(k, u) ==
    /\ DOMAIN log[k].out = DOMAIN u
    /\ \A f \in DOMAIN u \ {"steps"} : log[k].out[f] = u[f]

(* C29: an updates payload with title, description and steps that passes   *)
(* validation is replaced, before the tracker call, by one built from the  *)
(* normalized title, description and steps, plus the priority only when    *)
(* the caller gave a non-null one; no other key of the caller, state in    *)
(* particular, is sent. A payload that lacks one of the three keys is not  *)
(* validated and its keys, state included, are sent as given.              *)
C29_UpdateRebuilt ==
    op = "update"
        => \A k \in UpdateRequests :
               IF Complete(data.v)
               THEN /\ LastValidate(k) # 0
                    /\ log[LastValidate(k)].arg = data
                    /\ log[LastValidate(k)].out.is_valid
                    /\ C29_Rebuilt(k, data.v, log[LastValidate(k)].out.validated_data)
               ELSE LastValidate(k) = 0 /\ C29_Forwarded(k, data.v)

C29_Witness ==
    /\ op = "update"
    /\ Complete(data.v)
    /\ "state" \in DOMAIN data.v
    /\ Get(data.v, "priority") = Str(<<"3">>)
    /\ \E k \in UpdateRequests :
           /\ DOMAIN log[k].out = {"title", "description", "steps", "priority"}
           /\ log[k].out["priority"] = Num(3)
           /\ log[k].out["title"] = Str(<<"a">>)

----------------------------------------------------------------------------
(* The create request of the call that sends the link request at k. *)
CreateOf(k) ==
    IF \E j \in CreateRequests : j < k
    THEN CHOOSE j \in CreateRequests : j < k /\ \A i \in CreateRequests : i < k => i <= j
    ELSE 0

(* A configure call was made between the events at j and at k. *)
ConfiguredBetween(j, k) ==
    \E c \in At("configure") : j < c /\ c < k

(* C30: the link request of a create_testcase call goes to the organization *)
(* and project, with the credentials, of the call's create request, also    *)
(* when other tasks configure the shared client while the call waits for    *)
(* the tracker.                                                             *)
C30_SameConnection ==
    \A k \in LinkRequests :
        /\ CreateOf(k) # 0
        /\ log[k].to = log[CreateOf(k)].to

(* The two requests differ only when the client was configured in between. *)
C30_UnlessConfigured ==
    \A k \in LinkRequests :
        /\ CreateOf(k) # 0
        /\ ~ConfiguredBetween(CreateOf(k), k) => log[k].to = log[CreateOf(k)].to

====
